---- MODULE Spec2Model ----
(***************************************************************************)
(* Dual-source chat synchronisation engine of tanstack-start-app.          *)
(*                                                                         *)
(*   Remote Session Store   src/unnamed/part_006   (Convex functions)      *)
(*   Local Session Store    src/src/lib/anonymous-storage.ts               *)
(*   Streaming endpoint     src/src/routes/index.tsx, POST handler         *)
(*   Merge View             src/src/routes/index.tsx, allMessages          *)
(*                                                                         *)
(* The module holds several specifications over one set of variables; a    *)
(* specification leaves the variables of the components it does not        *)
(* exercise at their initial value.                                        *)
(***************************************************************************)
EXTENDS Integers, Sequences, FiniteSets, TLC

(***************************************************************************)
(* Bounds of the model.                                                    *)
(***************************************************************************)
\* Date.now() ranges over 1..MaxClock.
MaxClock == 2
\* Largest number of session records a table or storage slot holds.
MaxSessions == 2
\* Largest number of message records a table or storage slot holds.
MaxMessages == 2
\* Largest number of messages useChat holds.
MaxLive == 2

(***************************************************************************)
(* Value domains.                                                          *)
(***************************************************************************)
\* Verified principals (the `subject` of a Clerk identity).
Principals == {"u1", "u2"}
\* ctx.auth.getUserIdentity() returned null.
NoUser == "null"
Auth == Principals \cup {NoUser}
SessionIds == {"s1", "s2"}
MessageIds == {"m1", "m2"}
Roles == {"user", "assistant"}
\* Message text; the stores never look into it.
Text == "hi"
\* The session title; the stores never look into it.
Title == "t"
\* `title` is optional in updateSession.
NoTitle == ""
\* An absent sessionId in a `call` record.
NoSession == "null"
\* A ref holding null.
Null == "null"
\* The id useChat gives the i-th message of its list; such ids are generated
\* by the library and are not UUIDs.
ChatId(i) == "c" \o ToString(i)

VARIABLES
    now,            \* Date.now(), in milliseconds
    chatSessions,   \* Convex table chatSessions, in insertion (_creationTime) order
    chatMessages,   \* Convex table chatMessages, in insertion (_creationTime) order
    anonSessions,   \* localStorage slot anon_chat_sessions
    anonMessages,   \* localStorage slot anon_chat_messages
    backend,        \* "remote" or "local": the store the run exercises
    call,           \* the operation that made the last step, and how it ended
    storedMessages, \* ChatPage: the result of useQuery(api.chat.getMessages)
    messages,       \* ChatPage: useChat's messages of the turn in flight
    isLoading,      \* ChatPage: useChat's isLoading
    currentUserMessageIdRef,        \* ChatPage: id of the user turn, or null
    currentAssistantMessageIdRef,   \* ChatPage: id of the assistant turn, or null
    view,           \* ChatPage: what the last render computed
    convex,         \* POST /api/chat: CONVEX_URL is set, the server has a client
    rateLimits,     \* Convex table rateLimits, in insertion order
    req,            \* POST /api/chat: the request being handled, and where it is
    served,         \* POST /api/chat: number of requests received so far
    uuids,          \* number of crypto.randomUUID() results handed out so far
    checked,        \* limiter: the last checkRateLimit call and what it returned
    inflight,       \* limiter: incrementRateLimit calls sent and not yet run, per identifier
    completed,      \* limiter: incrementRateLimit calls run, per identifier and UTC day
    route,          \* ChatPage: the sessionId search param of the URL
    sessionIdRef,   \* ChatPage: sessionIdRef.current
    inputValue,     \* ChatPage: the text of the input field
    turn,           \* ChatPage: how the last turn stands: none, live, finished, errored, refused
    adoptions,      \* ChatPage: navigations made by the pendingSessionId effect, per session
    streams,        \* ChatPage: response streams in flight
    connections,    \* ChatPage: connections to /api/chat opened so far
    allocated,      \* ChatPage: user message ids allocated by sendMessage so far
    delivered,      \* ChatPage: chunks the stream in flight has delivered
    origin,         \* ChatPage: the session the last turn was submitted in, and whether
                    \*           the user has left that view since
    listed,         \* reader: the last call of a Local Store list function and its result
    walk,           \* reader: the pages a "load older" loop has got so far
    anonUserId,     \* localStorage slot anonymous_user_id, or null
    identified,     \* the value the last getAnonymousUserId call returned, or null
    flights,        \* POST /api/chat: where each of the concurrent requests of one identity is
    quota           \* POST /api/chat: what happened to the requests of that identity so far

storeVars == <<now, chatSessions, chatMessages, anonSessions, anonMessages, backend, call>>
pageVars == <<storedMessages, messages, isLoading, currentUserMessageIdRef,
              currentAssistantMessageIdRef, view>>
serverVars == <<convex, rateLimits, req, served, uuids>>
limiterVars == <<checked, inflight, completed>>
clientVars == <<route, sessionIdRef, inputValue, turn, adoptions, streams,
                connections, allocated, delivered, origin>>
readerVars == <<listed, walk>>
identityVars == <<anonUserId, identified>>
quotaVars == <<flights, quota>>
vars == <<storeVars, pageVars, serverVars, limiterVars, clientVars, readerVars,
          identityVars, quotaVars>>

(***************************************************************************)
(* Sequence helpers.                                                       *)
(***************************************************************************)
Range(seq) == {seq[i] : i \in 1..Len(seq)}

RemoveAt(seq, i) == SubSeq(seq, 1, i - 1) \o SubSeq(seq, i + 1, Len(seq))

Reverse(seq) == [i \in 1..Len(seq) |-> seq[Len(seq) + 1 - i]]

\* No two elements of the sequence have the same key.
DistinctBy(seq, Key(_)) ==
    \A i, j \in 1..Len(seq) : i # j => Key(seq[i]) # Key(seq[j])

MessageIdOf(r) == r.messageId
SessionIdOf(r) == r.sessionId

\* Array.prototype.slice(start, end): 0-based; a negative index counts from
\* the end of the array; both are clamped to 0..length.
Slice(seq, start, end) ==
    LET from(k) == IF k < 0 THEN (IF Len(seq) + k < 0 THEN 0 ELSE Len(seq) + k)
                   ELSE IF k > Len(seq) THEN Len(seq) ELSE k
    IN  SubSeq(seq, from(start) + 1, from(end))

\* A stable ascending sort by an integer key: Array.prototype.sort with the
\* comparator a.k - b.k, and the order of a Convex index on (k, _creationTime)
\* over a table kept in insertion order.
RECURSIVE SortByKey(_, _)
SortByKey(seq, keys) ==
    IF seq = <<>> THEN <<>>
    ELSE LET i == CHOOSE i \in 1..Len(seq) :
                    \A j \in 1..Len(seq) :
                        \/ keys[i] < keys[j]
                        \/ keys[i] = keys[j] /\ i <= j
         IN  <<seq[i]>> \o SortByKey(RemoveAt(seq, i), RemoveAt(keys, i))

SortByCreatedAt(seq) == SortByKey(seq, [i \in 1..Len(seq) |-> seq[i].createdAt])
SortByUpdatedAt(seq) == SortByKey(seq, [i \in 1..Len(seq) |-> seq[i].updatedAt])

(***************************************************************************)
(* Remote Session Store: queries (src/unnamed/part_006).                   *)
(***************************************************************************)
\* ctx.db.query('chatSessions').withIndex('by_session_id', eq sessionId).first():
\* the position of the first such record, 0 when there is none.
FirstSessionIdx(sessions, sessionId) ==
    IF \E i \in 1..Len(sessions) : sessions[i].sessionId = sessionId
    THEN CHOOSE i \in 1..Len(sessions) :
            /\ sessions[i].sessionId = sessionId
            /\ \A j \in 1..(i - 1) : sessions[j].sessionId # sessionId
    ELSE 0

\* withIndex('by_user_and_time', eq userId).order('desc')
SessionsOfUser(sessions, userId) ==
    Reverse(SortByUpdatedAt(SelectSeq(sessions, LAMBDA r : r.userId = userId)))

\* withIndex('by_session_and_time', eq sessionId).order('asc')
MessagesOfSession(msgs, sessionId) ==
    SortByCreatedAt(SelectSeq(msgs, LAMBDA r : r.sessionId = sessionId))

\* The empty paginated result the queries return on refusal.
EmptyPage == [page |-> <<>>, isDone |-> TRUE, continueCursor |-> 0]

\* .paginate({numItems, cursor}) over an ordered scan; the cursor is the number
\* of records already returned (null reads as 0).
Paginate(ordered, cursor, numItems) ==
    [page |-> Slice(ordered, cursor, cursor + numItems),
     isDone |-> cursor + numItems >= Len(ordered),
     continueCursor |-> IF cursor + numItems >= Len(ordered)
                        THEN Len(ordered) ELSE cursor + numItems]

listSessions(auth, userId) ==
    IF auth = NoUser \/ auth # userId THEN <<>>
    ELSE SessionsOfUser(chatSessions, userId)

listSessionsPaginated(auth, userId, cursor, numItems) ==
    IF auth = NoUser \/ auth # userId THEN EmptyPage
    ELSE Paginate(SessionsOfUser(chatSessions, userId), cursor, numItems)

\* getSession returns null or one record: modelled as a list of at most one.
getSession(auth, sessionId) ==
    LET i == FirstSessionIdx(chatSessions, sessionId)
    IN  IF auth = NoUser THEN <<>>
        ELSE IF i # 0 /\ chatSessions[i].userId # auth THEN <<>>
        ELSE IF i = 0 THEN <<>>
        ELSE <<chatSessions[i]>>

\* getMessages as it was before the ownership check was added.
getMessages_Unchecked(auth, sessionId) == MessagesOfSession(chatMessages, sessionId)

getMessages(auth, sessionId) ==
    LET i == FirstSessionIdx(chatSessions, sessionId)
    IN  IF auth = NoUser THEN <<>>
        ELSE IF i = 0 \/ chatSessions[i].userId # auth THEN <<>>
        ELSE MessagesOfSession(chatMessages, sessionId)

getMessagesPaginated(auth, sessionId, cursor, numItems) ==
    LET i == FirstSessionIdx(chatSessions, sessionId)
    IN  IF auth = NoUser THEN EmptyPage
        ELSE IF i = 0 \/ chatSessions[i].userId # auth THEN EmptyPage
        ELSE Paginate(MessagesOfSession(chatMessages, sessionId), cursor, numItems)

\* internalQuery: no check of the caller.
internalGetMessages(sessionId) == MessagesOfSession(chatMessages, sessionId)

(***************************************************************************)
(* The record of the operation that made the last step.                    *)
(*   ok     the operation returned without throwing                        *)
(*   fault  a localStorage access failed while it ran                      *)
(***************************************************************************)
Call(op, sessionId, ok, fault) ==
    [op |-> op, sessionId |-> sessionId, ok |-> ok, fault |-> fault]

NoCall == Call("none", NoSession, TRUE, FALSE)

(***************************************************************************)
(* Remote Session Store: mutations (src/unnamed/part_006).  A mutation     *)
(* that throws is rolled back by Convex: the tables keep their value.      *)
(***************************************************************************)
SessionRecord(sessionId, userId, title, t) ==
    [sessionId |-> sessionId, userId |-> userId, title |-> title,
     createdAt |-> t, updatedAt |-> t]

MessageRecord(sessionId, messageId, role, content, t) ==
    [sessionId |-> sessionId, messageId |-> messageId, role |-> role,
     content |-> content, createdAt |-> t]

\* ctx.db.insert('chatSessions', {...}): no look-up of an existing sessionId.
InsertSession(sessions, sessionId, userId, title, t) ==
    Append(sessions, SessionRecord(sessionId, userId, title, t))

\* The patch of updatedAt turned into an upsert of the session.
TouchSession_OrCreate(sessions, sessionId, t) ==
    LET i == FirstSessionIdx(sessions, sessionId)
    IN  IF i = 0 THEN Append(sessions, [sessionId |-> sessionId, userId |-> "u1",
                                        title |-> "New Chat", createdAt |-> t,
                                        updatedAt |-> t])
        ELSE [sessions EXCEPT ![i].updatedAt = t]

\* if (session) ctx.db.patch(session._id, { updatedAt: now })
TouchSession(sessions, sessionId, t) ==
    LET i == FirstSessionIdx(sessions, sessionId)
    IN  IF i = 0 THEN sessions ELSE [sessions EXCEPT ![i].updatedAt = t]

\* ctx.db.insert('chatMessages', {...}): no look-up of the session or of an
\* existing messageId.
InsertMessage(msgs, sessionId, messageId, role, content, t) ==
    Append(msgs, MessageRecord(sessionId, messageId, role, content, t))

\* addMessages' loop: the i-th message (from 0) gets createdAt now + i.
RECURSIVE InsertBatch(_, _, _, _, _)
InsertBatch(msgs, sessionId, batch, t, i) ==
    IF i >= Len(batch) THEN msgs
    ELSE InsertBatch(
            InsertMessage(msgs, sessionId, batch[i + 1].messageId,
                          batch[i + 1].role, batch[i + 1].content, t + i),
            sessionId, batch, t, i + 1)

\* The checks of updateSession and deleteSession, in the order of the code:
\* "Unauthorized", "Session not found", "Unauthorized", or "" when none throws.
OwnerCheck(auth, sessionId) ==
    LET i == FirstSessionIdx(chatSessions, sessionId)
    IN  IF auth = NoUser THEN "Unauthorized"
        ELSE IF i = 0 THEN "Session not found"
        ELSE IF chatSessions[i].userId # auth THEN "Unauthorized"
        ELSE ""

\* deleteSession's effect on the two tables once its checks passed.
DeleteMessagesOf(msgs, sessionId) ==
    SelectSeq(msgs, LAMBDA r : r.sessionId # sessionId)

DeleteFirstSession(sessions, sessionId) ==
    RemoveAt(sessions, FirstSessionIdx(sessions, sessionId))

createSession(auth, sessionId, userId, title) ==
    /\ backend = "remote"
    /\ Len(chatSessions) < MaxSessions
    /\ chatSessions' = InsertSession(chatSessions, sessionId, userId, title, now)
    /\ call' = Call("createSession", sessionId, TRUE, FALSE)
    /\ UNCHANGED <<now, chatMessages, anonSessions, anonMessages, backend>>

updateSession(auth, sessionId, title) ==
    /\ backend = "remote"
    /\ IF OwnerCheck(auth, sessionId) # ""
       THEN /\ call' = Call("updateSession", sessionId, FALSE, FALSE)
            /\ UNCHANGED chatSessions
       ELSE /\ chatSessions' =
                [chatSessions EXCEPT ![FirstSessionIdx(chatSessions, sessionId)] =
                    [@ EXCEPT !.title = IF title # NoTitle THEN title ELSE @,
                              !.updatedAt = now]]
            /\ call' = Call("updateSession", sessionId, TRUE, FALSE)
    /\ UNCHANGED <<now, chatMessages, anonSessions, anonMessages, backend>>

deleteSession(auth, sessionId) ==
    /\ backend = "remote"
    /\ IF OwnerCheck(auth, sessionId) # ""
       THEN /\ call' = Call("deleteSession", sessionId, FALSE, FALSE)
            /\ UNCHANGED <<chatSessions, chatMessages>>
       ELSE /\ chatMessages' = DeleteMessagesOf(chatMessages, sessionId)
            /\ chatSessions' = DeleteFirstSession(chatSessions, sessionId)
            /\ call' = Call("deleteSession", sessionId, TRUE, FALSE)
    /\ UNCHANGED <<now, anonSessions, anonMessages, backend>>

addMessage(auth, sessionId, messageId, role, content) ==
    /\ backend = "remote"
    /\ chatSessions' = TouchSession(chatSessions, sessionId, now)
    /\ chatMessages' = InsertMessage(chatMessages, sessionId, messageId, role, content, now)
    /\ call' = Call("addMessage", sessionId, TRUE, FALSE)
    /\ UNCHANGED <<now, anonSessions, anonMessages, backend>>

\* internalMutation: the same handler as addMessage, callable by the server only.
internalAddMessage(sessionId, messageId, role, content) ==
    /\ backend = "remote"
    /\ chatSessions' = TouchSession(chatSessions, sessionId, now)
    /\ chatMessages' = InsertMessage(chatMessages, sessionId, messageId, role, content, now)
    /\ call' = Call("internalAddMessage", sessionId, TRUE, FALSE)
    /\ UNCHANGED <<now, anonSessions, anonMessages, backend>>

addMessages(auth, sessionId, batch) ==
    /\ backend = "remote"
    /\ chatSessions' = TouchSession(chatSessions, sessionId, now)
    /\ chatMessages' = InsertBatch(chatMessages, sessionId, batch, now, 0)
    /\ call' = Call("addMessages", sessionId, TRUE, FALSE)
    /\ UNCHANGED <<now, anonSessions, anonMessages, backend>>

(***************************************************************************)
(* Local Session Store (src/src/lib/anonymous-storage.ts).  A slot holds   *)
(* the parsed list; an absent key reads as the empty list                  *)
(* (data ? JSON.parse(data) : []).  readFails / writeFails: getItem or     *)
(* JSON.parse, resp. setItem, throws during the call.                      *)
(***************************************************************************)
\* Array.prototype.unshift as a function: the item goes to the head.
unshift_AtEnd(list, item) == Append(list, item)

unshift(list, item) == <<item>> \o list

\* Array.prototype.push as a function: the item goes to the end.
push_AtFront(list, item) == <<item>> \o list

push(list, item) == Append(list, item)

AnonSessionRecord(sessionId, title, t) ==
    [sessionId |-> sessionId, title |-> title, createdAt |-> t, updatedAt |-> t]

\* getAnonSessions: try { parse the slot } catch { return [] }
getAnonSessions(readFails) == IF readFails THEN <<>> ELSE anonSessions

\* getAnonMessages without its sort.
getAnonMessages_Unsorted(sessionId, readFails) ==
    IF readFails THEN <<>>
    ELSE SelectSeq(anonMessages, LAMBDA m : m.sessionId = sessionId)

\* getAnonMessages: filter by sessionId, sort by createdAt; [] on a failure.
getAnonMessages(sessionId, readFails) ==
    IF readFails THEN <<>>
    ELSE SortByCreatedAt(SelectSeq(anonMessages, LAMBDA m : m.sessionId = sessionId))

Max(a, b) == IF a >= b THEN a ELSE b

\* nextCursor: null is modelled as -1.
NullCursor == 0 - 1

\* getAnonSessionsPaginated with hasMore true also at the end of the list.
getAnonSessionsPaginated_Inclusive(cursor, limit, readFails) ==
    LET allSessions == getAnonSessions(readFails)
        startIndex == cursor
        endIndex == startIndex + limit
        hasMore == endIndex <= Len(allSessions)
    IN  [sessions |-> Slice(allSessions, startIndex, endIndex),
         nextCursor |-> IF hasMore THEN endIndex ELSE NullCursor,
         hasMore |-> hasMore]

getAnonSessionsPaginated(cursor, limit, readFails) ==
    LET allSessions == getAnonSessions(readFails)
        startIndex == cursor
        endIndex == startIndex + limit
        hasMore == endIndex < Len(allSessions)
    IN  [sessions |-> Slice(allSessions, startIndex, endIndex),
         nextCursor |-> IF hasMore THEN endIndex ELSE NullCursor,
         hasMore |-> hasMore]

\* getAnonMessagesPaginated without the Math.max of its start index.
getAnonMessagesPaginated_NoClamp(sessionId, cursor, limit, readFails) ==
    LET allMessages == getAnonMessages(sessionId, readFails)
        totalCount == Len(allMessages)
        startOffset == cursor + limit
        startIndex == totalCount - startOffset
        hasMore == startIndex > 0
    IN  [messages |-> Slice(allMessages, startIndex, totalCount - cursor),
         nextCursor |-> IF hasMore THEN startOffset ELSE NullCursor,
         hasMore |-> hasMore]

getAnonMessagesPaginated(sessionId, cursor, limit, readFails) ==
    LET allMessages == getAnonMessages(sessionId, readFails)
        totalCount == Len(allMessages)
        endOffset == cursor
        startOffset == endOffset + limit
        endIndex == totalCount - endOffset
        startIndex == Max(0, totalCount - startOffset)
        hasMore == startIndex > 0
    IN  [messages |-> Slice(allMessages, startIndex, endIndex),
         nextCursor |-> IF hasMore THEN startOffset ELSE NullCursor,
         hasMore |-> hasMore]

saveAnonMessage(message, readFails, writeFails) ==
    /\ backend = "local"
    /\ Len(anonMessages) < MaxMessages
    /\ anonMessages' = IF readFails \/ writeFails THEN anonMessages
                       ELSE push(anonMessages, message)
    /\ call' = Call("saveAnonMessage", message.sessionId, TRUE,
                    readFails \/ writeFails)
    /\ UNCHANGED <<now, chatSessions, chatMessages, anonSessions, backend, anonUserId>>

\* saveAnonSessions is not guarded: a failing setItem throws to the caller.
createAnonSession(sessionId, title, readFails, writeFails) ==
    /\ backend = "local"
    /\ Len(anonSessions) < MaxSessions
    /\ anonSessions' = IF writeFails THEN anonSessions
                       ELSE unshift(getAnonSessions(readFails),
                                    AnonSessionRecord(sessionId, title, now))
    /\ call' = Call("createAnonSession", sessionId, ~writeFails,
                    readFails \/ writeFails)
    /\ UNCHANGED <<now, chatSessions, chatMessages, anonMessages, backend, anonUserId>>

\* The sessions are filtered and saved first (unguarded); the messages are
\* filtered and saved inside try/catch.  msgFails: the read or the write of
\* the messages slot throws.
deleteAnonSession(sessionId, readFails, writeFails, msgFails) ==
    /\ backend = "local"
    /\ anonSessions' = IF writeFails THEN anonSessions
                       ELSE SelectSeq(getAnonSessions(readFails),
                                      LAMBDA r : r.sessionId # sessionId)
    /\ anonMessages' = IF writeFails \/ msgFails THEN anonMessages
                       ELSE SelectSeq(anonMessages, LAMBDA m : m.sessionId # sessionId)
    /\ call' = Call("deleteAnonSession", sessionId, ~writeFails,
                    readFails \/ writeFails \/ msgFails)
    /\ UNCHANGED <<now, chatSessions, chatMessages, backend, anonUserId>>

\* The results crypto.randomUUID() can give in the browser.
BrowserUUIDs == {"r1", "r2"}

\* `!userId`: the slot holds no value.
Absent_Always(userId) == TRUE

Absent(userId) == userId = Null

IdentityAbsent ==
    /\ anonUserId = Null
    /\ identified = Null

\* getAnonymousUserId: neither getItem nor setItem is guarded, a failing
\* access throws to the caller.  uuid: the result of crypto.randomUUID().
getAnonymousUserId(uuid, readFails, writeFails) ==
    LET generates == ~readFails /\ Absent(anonUserId)
        userId == IF generates THEN "anon_" \o uuid ELSE anonUserId
        throws == readFails \/ (generates /\ writeFails)
    IN  /\ backend = "local"
        /\ anonUserId' = IF generates /\ ~writeFails THEN userId ELSE anonUserId
        /\ identified' = IF throws THEN Null ELSE userId
        /\ call' = Call("getAnonymousUserId", NoSession, ~throws, throws)
        /\ UNCHANGED <<now, chatSessions, chatMessages, anonSessions, anonMessages,
                       backend>>

(***************************************************************************)
(* Time.                                                                   *)
(***************************************************************************)
Tick ==
    /\ now < MaxClock
    /\ now' = now + 1
    /\ call' = Call("tick", NoSession, TRUE, FALSE)
    /\ UNCHANGED <<chatSessions, chatMessages, anonSessions, anonMessages, backend>>

(***************************************************************************)
(* Merge View: ChatPage's allMessages (src/src/routes/index.tsx).          *)
(***************************************************************************)
RECURSIVE Join(_)
Join(strings) == IF strings = <<>> THEN "" ELSE Head(strings) \o Join(Tail(strings))

\* message.parts.filter(type === 'text').map(content || '').join('')
getMessageContent(message) ==
    LET textParts == SelectSeq(message.parts, LAMBDA part : part.type = "text")
    IN  Join([i \in 1..Len(textParts) |-> textParts[i].content])

\* Math.max(base, ...list.map(m => m.createdAt))
RECURSIVE MaxCreatedAt(_, _)
MaxCreatedAt(base, list) ==
    IF list = <<>> THEN base
    ELSE MaxCreatedAt(Max(base, Head(list).createdAt), Tail(list))

\* messages.find(m => m.role === role): its position, 0 when there is none.
FindRole(list, role) ==
    IF \E i \in 1..Len(list) : list[i].role = role
    THEN CHOOSE i \in 1..Len(list) :
            /\ list[i].role = role
            /\ \A j \in 1..(i - 1) : list[j].role # role
    ELSE 0

ViewLine(id, role, content, createdAt, isStreaming) ==
    [id |-> id, role |-> role, content |-> content, createdAt |-> createdAt,
     isStreaming |-> isStreaming]

\* ref ? convexMsgs.some(m => m.id === ref) : false
HasId(lines, ref) ==
    IF ref # Null THEN \E m \in Range(lines) : m.id = ref ELSE FALSE

\* A Merge View that never finds the user message in the persisted data.
hasUserMessage_Never(convexMsgs, userRef) == FALSE

\* const hasUserMessage = ref ? convexMsgs.some(...) : false
hasUserMessage(convexMsgs, userRef) == HasId(convexMsgs, userRef)

\* A Merge View that does not recompute the maximum after adding the user line.
newMaxTimestamp_Stale(maxConvexTimestamp, convexMsgs) == maxConvexTimestamp

\* A Merge View that keeps the timestamps of its last output and counts on
\* from them.
newMaxTimestamp_Remembered(maxConvexTimestamp, convexMsgs) ==
    MaxCreatedAt(maxConvexTimestamp, view.lines)

\* const newMaxTimestamp = Math.max(maxConvexTimestamp, ...convexMsgs.map(createdAt))
newMaxTimestamp(maxConvexTimestamp, convexMsgs) ==
    MaxCreatedAt(maxConvexTimestamp, convexMsgs)

\* A Merge View that adds the useChat messages whenever there are some.
DuringStreaming_AnyMessages(loading, chat) == Len(chat) > 0

\* if (isLoading && messages.length > 0)
DuringStreaming(loading, chat) == loading /\ Len(chat) > 0

allMessages(stored, chat, loading, userRef, assistantRef) ==
    LET convexMsgs == [i \in 1..Len(stored) |->
                        ViewLine(stored[i].messageId, stored[i].role, stored[i].content,
                                 stored[i].createdAt, FALSE)]
        maxConvexTimestamp == MaxCreatedAt(0, convexMsgs)
        userMsg == FindRole(chat, "user")
        withUser ==
            IF ~hasUserMessage(convexMsgs, userRef) /\ userMsg # 0
            THEN Append(convexMsgs,
                        ViewLine(IF userRef # Null THEN userRef ELSE chat[userMsg].id,
                                 "user", getMessageContent(chat[userMsg]),
                                 maxConvexTimestamp + 1, FALSE))
            ELSE convexMsgs
        assistantMsg == FindRole(chat, "assistant")
        withAssistant ==
            IF ~HasId(withUser, assistantRef) /\ assistantMsg # 0
            THEN Append(withUser,
                        ViewLine(IF assistantRef # Null THEN assistantRef
                                 ELSE chat[assistantMsg].id,
                                 "assistant", getMessageContent(chat[assistantMsg]),
                                 newMaxTimestamp(maxConvexTimestamp, withUser) + 1, TRUE))
            ELSE withUser
    IN  SortByCreatedAt(IF DuringStreaming(loading, chat) THEN withAssistant
                        ELSE convexMsgs)

\* A render of ChatPage: useMemo recomputes allMessages from the current
\* storedMessages, messages, isLoading and the two refs.
Render ==
    /\ view' = [rendered |-> TRUE,
                lines |-> allMessages(storedMessages, messages, isLoading,
                                      currentUserMessageIdRef,
                                      currentAssistantMessageIdRef)]
    /\ UNCHANGED <<storedMessages, messages, isLoading, currentUserMessageIdRef,
                   currentAssistantMessageIdRef>>

NotRendered == [rendered |-> FALSE, lines |-> <<>>]

(***************************************************************************)
(* Rate limiter (src/convex/rateLimit.ts).                                 *)
(***************************************************************************)
AUTHENTICATED_USER_LIMIT == 10
ANONYMOUS_USER_LIMIT == 5
\* Number of clock readings that fall into one UTC day.
DayLength == 2

\* The UTC day the clock is in.
UtcDay == now \div DayLength

\* getTodayDate with a date that is computed once, at the start, and kept.
getTodayDate_Frozen == 0 \div DayLength

\* getTodayDate(): the UTC date of Date.now(), as a day number.
getTodayDate == now \div DayLength

\* .withIndex('by_identifier_and_date', ...).first(): the index of the first
\* record of the key, or 0.
RateLimitIdx(table, identifier, date) ==
    LET hits == {i \in 1..Len(table) :
                    table[i].identifier = identifier /\ table[i].date = date}
    IN  IF hits = {} THEN 0 ELSE CHOOSE i \in hits : \A j \in hits : i <= j

\* checkRateLimit letting the request at the limit pass.
checkRateLimit_Inclusive(identifier, identifierType) ==
    LET today == getTodayDate
        limit == IF identifierType = "user" THEN AUTHENTICATED_USER_LIMIT
                                             ELSE ANONYMOUS_USER_LIMIT
        i == RateLimitIdx(rateLimits, identifier, today)
        currentCount == IF i = 0 THEN 0 ELSE rateLimits[i].messageCount
    IN  [allowed |-> currentCount <= limit,
         limit |-> limit,
         remaining |-> Max(0, limit - currentCount),
         resetAt |-> today]

checkRateLimit(identifier, identifierType) ==
    LET today == getTodayDate
        limit == IF identifierType = "user" THEN AUTHENTICATED_USER_LIMIT
                                             ELSE ANONYMOUS_USER_LIMIT
        i == RateLimitIdx(rateLimits, identifier, today)
        currentCount == IF i = 0 THEN 0 ELSE rateLimits[i].messageCount
    IN  [allowed |-> currentCount < limit,
         limit |-> limit,
         remaining |-> Max(0, limit - currentCount),
         resetAt |-> today]

\* incrementRateLimit without the look-up of today's record.
incrementRateLimit_AlwaysInsert(table, identifier, identifierType) ==
    Append(table, [identifier |-> identifier,
                   identifierType |-> identifierType,
                   date |-> getTodayDate,
                   messageCount |-> 1,
                   updatedAt |-> now])

\* The table after incrementRateLimit; the mutation is one Convex transaction.
incrementRateLimit(table, identifier, identifierType) ==
    LET today == getTodayDate
        i == RateLimitIdx(table, identifier, today)
    IN  IF i # 0
        THEN [table EXCEPT ![i].messageCount = @ + 1, ![i].updatedAt = now]
        ELSE Append(table, [identifier |-> identifier,
                            identifierType |-> identifierType,
                            date |-> today,
                            messageCount |-> 1,
                            updatedAt |-> now])

(***************************************************************************)
(* The limiter behind its two entry points.  A Convex mutation runs as one *)
(* serializable transaction, so a call of incrementRateLimit that was sent *)
(* takes effect in one step, at some later moment; calls of several        *)
(* clients are in flight together.                                         *)
(***************************************************************************)
\* Largest number of incrementRateLimit calls of a run.
MaxIncrements == 11
\* Largest number of incrementRateLimit calls in flight.
MaxInflight == 2

\* The identifiers the limiter is called with: a user id and an address.
LimiterIds == {"u1", "ip1"}
\* identifierType = userId ? 'user' : 'ip'
TypeOf(identifier) == IF identifier \in Principals THEN "user" ELSE "ip"
IdentifierTypes == {"user", "ip"}
\* The UTC days the clock reaches.
Days == 0..(MaxClock \div DayLength)

\* No checkRateLimit call was the last step.
NoCheck ==
    [identifier |-> "", identifierType |-> "", date |-> 0,
     result |-> [allowed |-> TRUE, limit |-> 0, remaining |-> 0, resetAt |-> 0]]

\* The limiter before its first call.
LimiterIdle ==
    /\ checked = NoCheck
    /\ inflight = [i \in LimiterIds |-> 0]
    /\ completed = [i \in LimiterIds |-> [d \in Days |-> 0]]

\* f[0] + ... + f[d]
RECURSIVE SumTo(_, _)
SumTo(f, d) == IF d < 0 THEN 0 ELSE f[d] + SumTo(f, d - 1)

\* Number of incrementRateLimit calls that ran or are in flight.
Increments ==
    LET lastDay == MaxClock \div DayLength
    IN  inflight["u1"] + inflight["ip1"]
        + SumTo(completed["u1"], lastDay) + SumTo(completed["ip1"], lastDay)

\* What a call of the limiter leaves alone.
limiterFrame == <<chatSessions, chatMessages, anonSessions, anonMessages,
                  backend, call, convex, req, served, uuids>>

\* A client calls the query checkRateLimit.
CheckRateLimitCall(identifier, identifierType) ==
    /\ checked' = [identifier |-> identifier, identifierType |-> identifierType,
                   date |-> UtcDay,
                   result |-> checkRateLimit(identifier, identifierType)]
    /\ UNCHANGED <<now, rateLimits, inflight, completed, limiterFrame>>

\* A client sends the mutation incrementRateLimit.
SendIncrement(identifier) ==
    /\ Increments < MaxIncrements
    /\ inflight[identifier] < MaxInflight
    /\ inflight' = [inflight EXCEPT ![identifier] = @ + 1]
    /\ checked' = NoCheck
    /\ UNCHANGED <<now, rateLimits, completed, limiterFrame>>

\* Convex runs a call of incrementRateLimit that was sent.
RunIncrement(identifier) ==
    /\ inflight[identifier] > 0
    /\ rateLimits' = incrementRateLimit(rateLimits, identifier, TypeOf(identifier))
    /\ inflight' = [inflight EXCEPT ![identifier] = @ - 1]
    /\ completed' = [completed EXCEPT ![identifier][UtcDay] = @ + 1]
    /\ checked' = NoCheck
    /\ UNCHANGED <<now, limiterFrame>>

(***************************************************************************)
(* Streaming endpoint: POST /api/chat (src/src/routes/index.tsx).  One     *)
(* request is followed from its arrival to its end; a step is the code     *)
(* between two awaits that reach the Remote Store, the limiter or the      *)
(* provider.                                                               *)
(***************************************************************************)
\* Largest number of requests the endpoint receives.
MaxRequests == 2
\* Largest number of chunks the provider sends in one stream.
MaxChunks == 1
\* userMessageContent.slice(0, 50)
TitleLength == 50

\* The i-th result of crypto.randomUUID().
UUID(i) == "x" \o ToString(i)
\* An identifier a browser made up for itself.
AnonymousIds == {"a1"}
\* The text a content chunk carries.
Delta == "a"

\* getClientIP(request)
getClientIP(headers) ==
    IF headers.forwardedFor # Null THEN headers.forwardedFor
    ELSE IF headers.realIP # Null THEN headers.realIP
    ELSE "unknown"

\* The text of the latest message of the body, '' unless it is a user message.
userMessageContentOf(msgs) ==
    IF msgs = <<>> THEN ""
    ELSE LET latestUserMessage == msgs[Len(msgs)]
             textParts == SelectSeq(latestUserMessage.parts,
                                    LAMBDA p : p.type = "text")
         IN  IF latestUserMessage.role # "user" THEN ""
             ELSE IF textParts # <<>> THEN textParts[1].content
             ELSE IF latestUserMessage.content # Null
                  THEN latestUserMessage.content
             ELSE ""

\* userMessageContent.slice(0, 50) || 'New Chat'
TitleOf(userMessageContent) ==
    LET head == IF Len(userMessageContent) <= TitleLength THEN userMessageContent
                ELSE SubSeq(userMessageContent, 1, TitleLength)
    IN  IF head = "" THEN "New Chat" ELSE head

\* [...(messageHistory || []).map(...), { role: 'user', content }]
ContextOf(messageHistory, userMessageContent) ==
    [i \in 1..Len(messageHistory) |->
        [role |-> messageHistory[i].role, content |-> messageHistory[i].content]]
    \o <<[role |-> "user", content |-> userMessageContent]>>

\* The body of an answer that carries no quota information.
NoAnswer == [limit |-> 0, remaining |-> 0, resetAt |-> 0]

\* No request is being handled.
IdleReq ==
    [pc |-> "idle", status |-> "", userId |-> NoUser, currentUserId |-> NoUser,
     rateLimitIdentifier |-> "", identifierType |-> "", isAnon |-> FALSE,
     sessionId |-> NoSession, userMessageId |-> Null,
     isNewSession |-> FALSE, currentSessionId |-> NoSession,
     currentUserMessageId |-> Null, assistantMessageId |-> Null,
     userMessageContent |-> "", context |-> <<>>, fullResponse |-> "",
     emitted |-> <<>>, written |-> <<>>, answer |-> NoAnswer]

\* The request after identity resolution and the parsing of the body.
Parsed(token, headers, body) ==
    LET userId == token
        content == userMessageContentOf(body.messages)
    IN  [IdleReq EXCEPT
            !.userId = userId,
            !.currentUserId = IF userId # NoUser THEN userId ELSE body.anonymousId,
            !.rateLimitIdentifier = IF userId # NoUser THEN userId
                                    ELSE getClientIP(headers),
            !.identifierType = IF userId # NoUser THEN "user" ELSE "ip",
            !.isAnon = (body.isAnonymous = TRUE),
            !.sessionId = body.sessionId,
            !.userMessageId = body.userMessageId,
            !.userMessageContent = content,
            !.context = ContextOf(body.messageHistory, content)]

\* if (!isAnon && convex)
persists_Always(r) == TRUE

persists(r) == ~r.isAnon /\ convex

\* The response of the endpoint, or the way its stream ended.
Respond(r, status) == [r EXCEPT !.pc = "done", !.status = status]

\* streamWithMeta without its first yield.
StartStream_NoMetadata(r) == [r EXCEPT !.pc = "stream"]

\* streamWithMeta starts: the metadata chunk goes out first, with the
\* sessionId for a new session only.
StartStream(r) ==
    [r EXCEPT !.pc = "stream",
              !.emitted = <<[type |-> "metadata",
                             sessionId |-> IF r.isNewSession THEN r.currentSessionId
                                           ELSE Null,
                             userMessageId |-> r.currentUserMessageId,
                             assistantMessageId |-> r.assistantMessageId]>>]

\* What follows the creation of the session.
AfterCreateSession(r) ==
    IF r.userMessageContent # ""
    THEN [r EXCEPT !.pc = "addUserMessage"] ELSE StartStream(r)

\* The number of UUIDs the id generation draws.
UuidsUsed(r) ==
    (IF r.sessionId = NoSession THEN 1 ELSE 0)
    + (IF r.userMessageId = Null THEN 1 ELSE 0) + 1

\* The ids of the turn, and the first thing to do inside the try block.
GenerateIds(r) ==
    LET isNewSession == r.sessionId = NoSession
        n1 == IF isNewSession THEN uuids + 1 ELSE uuids
        n2 == IF r.userMessageId = Null THEN n1 + 1 ELSE n1
        withIds == [r EXCEPT
            !.isNewSession = isNewSession,
            !.currentSessionId = IF isNewSession THEN UUID(n1) ELSE r.sessionId,
            !.currentUserMessageId = IF r.userMessageId = Null THEN UUID(n2)
                                     ELSE r.userMessageId,
            !.assistantMessageId = UUID(n2 + 1)]
    IN  IF persists(withIds) /\ isNewSession
        THEN [withIds EXCEPT !.pc = "createSession"]
        ELSE IF persists(withIds) THEN AfterCreateSession(withIds)
        ELSE StartStream(withIds)

\* What follows the end of the provider's stream.
AfterStream(r) ==
    IF persists(r) /\ r.fullResponse # "" THEN [r EXCEPT !.pc = "addAssistant"]
    ELSE IF convex /\ r.fullResponse # "" THEN [r EXCEPT !.pc = "increment"]
    ELSE Respond(r, "ok")

\* What a step of the endpoint leaves alone whatever it does.
serverFrame == <<now, anonSessions, anonMessages, backend, convex>>

\* Lines 519-568, and 616-633 when there is no limiter to ask: the key check,
\* the identity of the caller and the body.  token is the subject verifyToken
\* returned, NoUser without a valid bearer token.
ReceiveRequest(apiKey, token, headers, body) ==
    LET r == Parsed(token, headers, body)
    IN  /\ req.pc = "idle"
        /\ served < MaxRequests
        /\ served' = served + 1
        /\ IF ~apiKey THEN req' = Respond(IdleReq, "500") /\ UNCHANGED uuids
           ELSE IF r.currentUserId = NoUser
                THEN req' = Respond(r, "400") /\ UNCHANGED uuids
           ELSE IF convex
                THEN req' = [r EXCEPT !.pc = "check"] /\ UNCHANGED uuids
           ELSE req' = GenerateIds(r) /\ uuids' = uuids + UuidsUsed(r)
        /\ call' = Call("POST", NoSession, TRUE, FALSE)
        /\ UNCHANGED <<chatSessions, chatMessages, rateLimits, serverFrame>>

\* if (!rateLimitStatus.allowed)
Refused_Never(rateLimitStatus) == FALSE

Refused(rateLimitStatus) == ~rateLimitStatus.allowed

\* catch (error) { console.error('Rate limit check failed:', error) }: the
\* error of the check is not rethrown.
CheckErrorSwallowed_Rethrown == FALSE

CheckErrorSwallowed == TRUE

\* The 429 answer: the limit and resetAt of the limiter, remaining 0.
TooManyRequests(r, rateLimitStatus) ==
    [Respond(r, "429") EXCEPT
        !.answer = [limit |-> rateLimitStatus.limit, remaining |-> 0,
                    resetAt |-> rateLimitStatus.resetAt]]

\* Lines 580-633: the limiter is asked; a failing call lets the request pass.
CheckRateLimitStep(fails) ==
    LET rateLimitStatus == checkRateLimit(req.rateLimitIdentifier, req.identifierType)
    IN  /\ req.pc = "check"
        /\ IF fails /\ ~CheckErrorSwallowed
           THEN req' = Respond(req, "500") /\ UNCHANGED uuids
           ELSE IF ~fails /\ Refused(rateLimitStatus)
           THEN req' = TooManyRequests(req, rateLimitStatus) /\ UNCHANGED uuids
           ELSE req' = GenerateIds(req) /\ uuids' = uuids + UuidsUsed(req)
        /\ call' = Call("checkRateLimit", NoSession, ~fails, FALSE)
        /\ UNCHANGED <<chatSessions, chatMessages, rateLimits, served, serverFrame>>

\* Lines 641-647: convex.mutation(api.chat.createSession, ...); a throw is
\* caught at line 743.
CreateSessionStep(fails) ==
    /\ req.pc = "createSession"
    /\ IF fails
       THEN req' = Respond(req, "500") /\ UNCHANGED chatSessions
       ELSE /\ chatSessions' = InsertSession(chatSessions, req.currentSessionId,
                                             req.currentUserId,
                                             TitleOf(req.userMessageContent), now)
            /\ req' = AfterCreateSession(
                        [req EXCEPT !.written = Append(@, "session")])
    /\ call' = Call("createSession", req.currentSessionId, ~fails, FALSE)
    /\ UNCHANGED <<chatMessages, rateLimits, served, uuids, serverFrame>>

\* Lines 650-657: convex.mutation(api.chat.addMessage, ...) for the user turn.
AddUserMessageStep(fails) ==
    /\ req.pc = "addUserMessage"
    /\ IF fails
       THEN req' = Respond(req, "500") /\ UNCHANGED <<chatSessions, chatMessages>>
       ELSE /\ chatSessions' = TouchSession(chatSessions, req.currentSessionId, now)
            /\ chatMessages' = InsertMessage(chatMessages, req.currentSessionId,
                                             req.currentUserMessageId, "user",
                                             req.userMessageContent, now)
            /\ req' = StartStream([req EXCEPT !.written = Append(@, "user")])
    /\ call' = Call("addMessage", req.currentSessionId, ~fails, FALSE)
    /\ UNCHANGED <<rateLimits, served, uuids, serverFrame>>

\* Lines 710-716: one chunk of the provider is collected and passed on.
ProviderChunk(chunk) ==
    /\ req.pc = "stream"
    /\ Len(req.emitted) <= MaxChunks
    /\ req' = [req EXCEPT
                !.fullResponse = IF chunk.type = "content" /\ chunk.delta # ""
                                 THEN @ \o chunk.delta ELSE @,
                !.emitted = Append(@, chunk)]
    /\ call' = Call("chunk", NoSession, TRUE, FALSE)
    /\ UNCHANGED <<chatSessions, chatMessages, rateLimits, served, uuids, serverFrame>>

\* Line 710: the provider's stream is exhausted.
ProviderEnds ==
    /\ req.pc = "stream"
    /\ req' = AfterStream(req)
    /\ call' = Call("chunk", NoSession, TRUE, FALSE)
    /\ UNCHANGED <<chatSessions, chatMessages, rateLimits, served, uuids, serverFrame>>

\* Line 710: the provider or the network fails; the generator throws and
\* nothing after the loop runs.
ProviderFails ==
    /\ req.pc = "stream"
    /\ req' = Respond(req, "error")
    /\ call' = Call("chunk", NoSession, FALSE, FALSE)
    /\ UNCHANGED <<chatSessions, chatMessages, rateLimits, served, uuids, serverFrame>>

\* Lines 719-726: convex.mutation(api.chat.addMessage, ...) for the answer; a
\* throw ends the generator.
AddAssistantStep(fails) ==
    /\ req.pc = "addAssistant"
    /\ IF fails
       THEN req' = Respond(req, "error") /\ UNCHANGED <<chatSessions, chatMessages>>
       ELSE /\ chatSessions' = TouchSession(chatSessions, req.currentSessionId, now)
            /\ chatMessages' = InsertMessage(chatMessages, req.currentSessionId,
                                             req.assistantMessageId, "assistant",
                                             req.fullResponse, now)
            /\ req' = [req EXCEPT !.pc = "increment",
                                  !.written = Append(@, "assistant")]
    /\ call' = Call("addMessage", req.currentSessionId, ~fails, FALSE)
    /\ UNCHANGED <<rateLimits, served, uuids, serverFrame>>

\* Lines 729-739: convex.mutation(api.rateLimit.incrementRateLimit, ...); a
\* throw is logged.
IncrementStep(fails) ==
    /\ req.pc = "increment"
    /\ rateLimits' = IF fails THEN rateLimits
                     ELSE incrementRateLimit(rateLimits, req.rateLimitIdentifier,
                                             req.identifierType)
    /\ req' = Respond(req, "ok")
    /\ call' = Call("incrementRateLimit", NoSession, ~fails, FALSE)
    /\ UNCHANGED <<chatSessions, chatMessages, served, uuids, serverFrame>>

\* The request is over; the endpoint waits for the next one.
Finish ==
    /\ req.pc = "done"
    /\ req' = IdleReq
    /\ call' = NoCall
    /\ UNCHANGED <<chatSessions, chatMessages, rateLimits, served, uuids, serverFrame>>

\* The endpoint before its first request.
ServerIdle ==
    /\ convex = TRUE
    /\ rateLimits = <<>>
    /\ req = IdleReq
    /\ served = 0
    /\ uuids = 0

(***************************************************************************)
(* ChatPage as orchestrator of a turn (src/src/routes/index.tsx 52-303).   *)
(* useChat is used by its contract: isLoading is true from sendMessage to  *)
(* the end of the stream, onChunk is called for every chunk, onFinish when *)
(* the stream completes, and nothing of the page when it breaks.  The      *)
(* effects of a render run in the step of the handler that caused it.      *)
(***************************************************************************)
\* Largest number of submissions the page accepts.
MaxTurns == 2
\* Largest number of navigations to one adopted session that are counted.
MaxAdoptions == 2

\* The i-th result of crypto.randomUUID() in the browser.
ClientUUID(i) == "k" \o ToString(i)
\* What the input field holds.
Inputs == {"", " ", Text, "yo"}
\* The sessions of the sidebar, and the one the server creates for a new chat.
SidebarIds == {"s1", UUID(1)}

\* String.prototype.trim()
RECURSIVE trim(_)
trim(str) ==
    IF Len(str) > 0 /\ SubSeq(str, 1, 1) = " " THEN trim(SubSeq(str, 2, Len(str)))
    ELSE IF Len(str) > 0 /\ SubSeq(str, Len(str), Len(str)) = " "
         THEN trim(SubSeq(str, 1, Len(str) - 1))
    ELSE str

\* if (!inputValue.trim() || isLoading) return
Rejects_Nothing(value, loading) == FALSE

Rejects(value, loading) == trim(value) = "" \/ loading

\* onFinish: currentUserMessageIdRef.current = null, and the same for the
\* assistant's.
RefAfterFinish_Kept(ref) == ref

RefAfterFinish(ref) == Null

\* What an event of the page leaves alone.
clientFrame == <<now, chatSessions, chatMessages, anonSessions, anonMessages,
                 backend, storedMessages, view>>

\* No turn was submitted yet.
NoOrigin == [sessionId |-> NoSession, left |-> FALSE]

\* The session of the turn in flight: the one it was submitted in, or the
\* one the server creates for a turn submitted in a new chat.
TurnSession == IF origin.sessionId # NoSession THEN origin.sessionId ELSE UUID(1)

\* The user types; the field is disabled while a stream is loading.
TypeInput(value) ==
    /\ ~isLoading
    /\ inputValue' = value
    /\ UNCHANGED origin
    /\ call' = Call("setInputValue", NoSession, TRUE, FALSE)
    /\ UNCHANGED <<route, sessionIdRef, messages, isLoading, turn,
                   currentUserMessageIdRef, currentAssistantMessageIdRef,
                   adoptions, streams, connections, allocated, delivered,
                   clientFrame>>

\* handleSubmit, sendMessage and the connection useChat opens.
handleSubmit ==
    IF Rejects(inputValue, isLoading)
    THEN /\ call' = Call("handleSubmit", sessionIdRef, FALSE, FALSE)
         /\ UNCHANGED origin
         /\ UNCHANGED <<route, sessionIdRef, inputValue, messages, isLoading, turn,
                        currentUserMessageIdRef, currentAssistantMessageIdRef,
                        adoptions, streams, connections, allocated, delivered,
                        clientFrame>>
    ELSE /\ allocated < MaxTurns
         /\ allocated' = allocated + 1
         /\ currentUserMessageIdRef' = ClientUUID(allocated + 1)
         /\ messages' = Append(messages,
                [id |-> ChatId(Len(messages) + 1), role |-> "user",
                 parts |-> <<[type |-> "text", content |-> inputValue]>>])
         /\ isLoading' = TRUE
         /\ connections' = connections + 1
         /\ streams' = streams + 1
         /\ delivered' = 0
         /\ turn' = "live"
         /\ inputValue' = ""
         /\ origin' = [sessionId |-> sessionIdRef, left |-> FALSE]
         /\ call' = Call("handleSubmit", sessionIdRef, TRUE, FALSE)
         /\ UNCHANGED <<route, sessionIdRef, currentAssistantMessageIdRef,
                        adoptions, clientFrame>>

\* onChunk for a metadata chunk, and the navigation effect that follows the
\* adoption of a new sessionId.
onMetadata(metadata) ==
    LET adopts == metadata.sessionId # Null /\ sessionIdRef = NoSession
    IN  /\ streams > 0
        /\ delivered <= MaxChunks
        /\ adopts => adoptions[metadata.sessionId] < MaxAdoptions
        /\ delivered' = delivered + 1
        /\ currentUserMessageIdRef' =
                IF metadata.userMessageId # Null THEN metadata.userMessageId
                ELSE currentUserMessageIdRef
        /\ currentAssistantMessageIdRef' =
                IF metadata.assistantMessageId # Null THEN metadata.assistantMessageId
                ELSE currentAssistantMessageIdRef
        /\ sessionIdRef' = IF adopts THEN metadata.sessionId ELSE sessionIdRef
        /\ route' = IF adopts /\ route = NoSession THEN metadata.sessionId ELSE route
        /\ adoptions' = IF adopts /\ route = NoSession
                        THEN [adoptions EXCEPT ![metadata.sessionId] = @ + 1]
                        ELSE adoptions
        /\ UNCHANGED origin
        /\ call' = Call("onChunk", metadata.sessionId, TRUE, FALSE)
        /\ UNCHANGED <<inputValue, messages, isLoading, turn, streams, connections,
                       allocated, clientFrame>>

\* A content chunk: useChat puts the text into the assistant message.
onContent ==
    /\ streams > 0
    /\ delivered <= MaxChunks
    /\ Len(messages) < MaxLive
    /\ delivered' = delivered + 1
    /\ messages' = Append(messages,
            [id |-> ChatId(Len(messages) + 1), role |-> "assistant",
             parts |-> <<[type |-> "text", content |-> Delta]>>])
    /\ UNCHANGED origin
    /\ call' = Call("onChunk", NoSession, TRUE, FALSE)
    /\ UNCHANGED <<route, sessionIdRef, inputValue, isLoading, turn,
                   currentUserMessageIdRef, currentAssistantMessageIdRef,
                   adoptions, streams, connections, allocated, clientFrame>>

\* The stream completes: onFinish.
onFinish ==
    /\ streams > 0
    /\ streams' = streams - 1
    /\ isLoading' = FALSE
    /\ turn' = "finished"
    /\ messages' = <<>>
    /\ currentUserMessageIdRef' = RefAfterFinish(currentUserMessageIdRef)
    /\ currentAssistantMessageIdRef' = RefAfterFinish(currentAssistantMessageIdRef)
    /\ UNCHANGED origin
    /\ call' = Call("onFinish", sessionIdRef, TRUE, FALSE)
    /\ UNCHANGED <<route, sessionIdRef, inputValue, adoptions, connections,
                   allocated, delivered, clientFrame>>

\* The stream breaks, or the endpoint answers with an error: useChat stops
\* loading and reports the error; the page passes no onError callback.
StreamFails(status) ==
    /\ streams > 0
    /\ streams' = streams - 1
    /\ isLoading' = FALSE
    /\ turn' = IF status = "429" THEN "refused" ELSE "errored"
    /\ UNCHANGED origin
    /\ call' = Call("error", sessionIdRef, FALSE, FALSE)
    /\ UNCHANGED <<route, sessionIdRef, inputValue, messages,
                   currentUserMessageIdRef, currentAssistantMessageIdRef,
                   adoptions, connections, allocated, delivered, clientFrame>>

\* createNewSession, and the effect that follows the change of the route.
createNewSession ==
    /\ messages' = <<>>
    /\ route' = NoSession
    /\ sessionIdRef' = IF route # NoSession THEN NoSession ELSE sessionIdRef
    /\ origin' = IF isLoading THEN [origin EXCEPT !.left = TRUE] ELSE origin
    /\ call' = Call("createNewSession", NoSession, TRUE, FALSE)
    /\ UNCHANGED <<inputValue, isLoading, turn, currentUserMessageIdRef,
                   currentAssistantMessageIdRef, adoptions, streams, connections,
                   allocated, delivered, clientFrame>>

\* selectSession(id), and the effect that follows the change of the route.
selectSession(id) ==
    /\ messages' = <<>>
    /\ route' = id
    /\ sessionIdRef' = IF route # id THEN id ELSE sessionIdRef
    /\ origin' = IF isLoading THEN [origin EXCEPT !.left = id # TurnSession]
                  ELSE origin
    /\ call' = Call("selectSession", id, TRUE, FALSE)
    /\ UNCHANGED <<inputValue, isLoading, turn, currentUserMessageIdRef,
                   currentAssistantMessageIdRef, adoptions, streams, connections,
                   allocated, delivered, clientFrame>>

\* handleDeleteSession(id), page side: when the mutation returned and the
\* session is the one shown, the page goes to the new chat.
handleDeleteSession(id, fails) ==
    LET leaves == ~fails /\ route = id
    IN  /\ messages' = IF leaves THEN <<>> ELSE messages
        /\ route' = IF leaves THEN NoSession ELSE route
        /\ sessionIdRef' = IF leaves THEN NoSession ELSE sessionIdRef
        /\ origin' = IF leaves /\ isLoading THEN [origin EXCEPT !.left = TRUE]
                      ELSE origin
        /\ call' = Call("handleDeleteSession", id, ~fails, FALSE)
        /\ UNCHANGED <<inputValue, isLoading, turn, currentUserMessageIdRef,
                       currentAssistantMessageIdRef, adoptions, streams,
                       connections, allocated, delivered, clientFrame>>

\* The page of a new chat before its first event.
ClientIdle ==
    /\ route = NoSession
    /\ sessionIdRef = NoSession
    /\ inputValue = ""
    /\ turn = "none"
    /\ adoptions = [id \in SidebarIds |-> 0]
    /\ streams = 0
    /\ connections = 0
    /\ allocated = 0
    /\ delivered = 0
    /\ origin = NoOrigin

(***************************************************************************)
(* The orchestrator of an anonymous turn.  The page that writes the Local  *)
(* Store is not part of src/: its steps follow the state machine of the    *)
(* specification (Idle, Sending, Streaming, Finalizing, Errored) and call   *)
(* the Local Store's functions of src/src/lib/anonymous-storage.ts.        *)
(***************************************************************************)
\* A submitted text that is longer than a title.
LongText == "The quick brown fox jumps over the lazy dog. And again."
SubmittedTexts == {Text, LongText}

\* The ids the server issues in its n-th answer to this page.
ServerSessionId(n) == UUID(2 * n - 1)
ServerAssistantId(n) == UUID(2 * n)

\* The first 50 characters of the submitted text.
AnonTitle(text) ==
    IF Len(text) <= TitleLength THEN text ELSE SubSeq(text, 1, TitleLength)

\* The text stashed at submission, and the buffer of the assistant's turn.
SubmittedText == getMessageContent(messages[1])
Buffer ==
    LET i == FindRole(messages, "assistant")
    IN  IF i = 0 THEN "" ELSE getMessageContent(messages[i])

\* What the messages slot holds after saveAnonMessage(message).
AfterSaveAnonMessage(slot, message, fails) ==
    IF fails THEN slot ELSE push(slot, message)

anonFrame == <<chatSessions, chatMessages, backend, storedMessages, view,
               inputValue, adoptions, connections>>

\* Idle -> Sending: a new user message id, the text stashed, the stream opened.
Sending(text) ==
    /\ ~isLoading
    /\ allocated < MaxTurns
    /\ allocated' = allocated + 1
    /\ currentUserMessageIdRef' = ClientUUID(allocated + 1)
    /\ currentAssistantMessageIdRef' = Null
    /\ messages' = <<[id |-> ChatId(1), role |-> "user",
                      parts |-> <<[type |-> "text", content |-> text]>>]>>
    /\ isLoading' = TRUE
    /\ streams' = 1
    /\ delivered' = 0
    /\ turn' = "live"
    /\ origin' = [sessionId |-> sessionIdRef, left |-> FALSE]
    /\ call' = Call("send", sessionIdRef, TRUE, FALSE)
    /\ UNCHANGED <<now, anonSessions, anonMessages, route, sessionIdRef, anonFrame>>

\* Sending -> Streaming: the metadata chunk.  It carries a sessionId when the
\* request had none; the page then adopts it, navigates to it and creates
\* the local session, titled with the first 50 characters of the text.
ReceiveMetadata(readFails, writeFails) ==
    LET adopts == sessionIdRef = NoSession
        newSessionId == ServerSessionId(allocated)
    IN  /\ isLoading
        /\ delivered = 0
        /\ delivered' = 1
        /\ currentAssistantMessageIdRef' = ServerAssistantId(allocated)
        /\ sessionIdRef' = IF adopts THEN newSessionId ELSE sessionIdRef
        /\ route' = IF adopts THEN newSessionId ELSE route
        /\ anonSessions' =
                IF ~adopts \/ writeFails THEN anonSessions
                ELSE unshift(getAnonSessions(readFails),
                             AnonSessionRecord(newSessionId,
                                               AnonTitle(SubmittedText), now))
        /\ UNCHANGED origin
        /\ call' = IF adopts
                   THEN Call("adopt", newSessionId, ~writeFails, readFails \/ writeFails)
                   ELSE Call("metadata", sessionIdRef, TRUE, FALSE)
        /\ UNCHANGED <<now, anonMessages, messages, isLoading, turn, streams,
                       allocated, currentUserMessageIdRef, anonFrame>>

\* Streaming: a content chunk goes into the buffer.
ReceiveContent ==
    /\ isLoading
    /\ delivered \in 1..MaxChunks
    /\ delivered' = delivered + 1
    /\ messages' =
            IF Len(messages) = 1
            THEN Append(messages,
                        [id |-> ChatId(2), role |-> "assistant",
                         parts |-> <<[type |-> "text", content |-> Delta]>>])
            ELSE [messages EXCEPT ![2].parts =
                        Append(@, [type |-> "text", content |-> Delta])]
    /\ UNCHANGED origin
    /\ call' = Call("content", sessionIdRef, TRUE, FALSE)
    /\ UNCHANGED <<now, anonSessions, anonMessages, route, sessionIdRef, isLoading,
                   turn, streams, allocated, currentUserMessageIdRef,
                   currentAssistantMessageIdRef, anonFrame>>

\* Streaming -> Finalizing -> Idle: the stream completed.  The user message
\* and the assistant message are appended to the Local Store, the assistant's
\* one unit of time after the user's; then the buffer and the ids are cleared.
Finalizing(userFails, assistantFails) ==
    LET userRecord ==
            MessageRecord(sessionIdRef, currentUserMessageIdRef, "user",
                          SubmittedText, now)
        assistantRecord ==
            MessageRecord(sessionIdRef, currentAssistantMessageIdRef, "assistant",
                          Buffer, now + 1)
    IN  /\ isLoading
        /\ delivered >= 1
        /\ anonMessages' =
                AfterSaveAnonMessage(
                    AfterSaveAnonMessage(anonMessages, userRecord, userFails),
                    assistantRecord, assistantFails)
        /\ messages' = <<>>
        /\ currentUserMessageIdRef' = Null
        /\ currentAssistantMessageIdRef' = Null
        /\ isLoading' = FALSE
        /\ streams' = 0
        /\ turn' = "finished"
        /\ UNCHANGED origin
        /\ call' = Call("finalize", sessionIdRef, TRUE, userFails \/ assistantFails)
        /\ UNCHANGED <<now, anonSessions, route, sessionIdRef, allocated, delivered,
                       anonFrame>>

\* Sending or Streaming -> Errored: nothing is written, the ids are dropped.
Errored ==
    /\ isLoading
    /\ messages' = <<>>
    /\ currentUserMessageIdRef' = Null
    /\ currentAssistantMessageIdRef' = Null
    /\ isLoading' = FALSE
    /\ streams' = 0
    /\ turn' = "errored"
    /\ UNCHANGED origin
    /\ call' = Call("error", sessionIdRef, FALSE, FALSE)
    /\ UNCHANGED <<now, anonSessions, anonMessages, route, sessionIdRef, allocated,
                   delivered, anonFrame>>

\* Idle: the user opens a new chat.
NewChat ==
    /\ ~isLoading
    /\ route # NoSession
    /\ route' = NoSession
    /\ sessionIdRef' = NoSession
    /\ UNCHANGED origin
    /\ call' = Call("newChat", NoSession, TRUE, FALSE)
    /\ UNCHANGED <<now, anonSessions, anonMessages, messages, isLoading, turn,
                   streams, allocated, delivered, currentUserMessageIdRef,
                   currentAssistantMessageIdRef, anonFrame>>

(***************************************************************************)
(* POST /api/chat under concurrent requests of one identity: the limiter  *)
(* is asked before the provider is called (lines 580-614) and told after   *)
(* the provider's stream has ended with a response (lines 729-739).  Each  *)
(* of the MaxFlights slots is one request at a time; the limiter's backend *)
(* is reachable.                                                           *)
(***************************************************************************)
\* Largest number of requests of the identity that are handled together.
MaxFlights == 2
\* Largest number of requests of the identity that reach the provider.
MaxAdmitted == 8

\* The identity of the requests: an address without a bearer token.
QuotaIdentifier == "ip1"

Flights == 1..MaxFlights

\* No request yet.
QuotaIdle ==
    /\ flights = [i \in Flights |-> "idle"]
    /\ quota = [admitted |-> 0, uncounted |-> 0, peak |-> 0]

\* The number of requests between their check and their end.
InFlight(f) == Cardinality({i \in Flights : f[i] # "idle"})

quotaFrame == <<now, chatSessions, chatMessages, anonSessions, anonMessages, backend,
                pageVars, convex, req, served, uuids, limiterVars, clientVars,
                readerVars, identityVars>>

\* Lines 580-614 and 678: the limiter is asked; a refused request is answered
\* 429, an allowed one goes on to the provider.
AdmitRequest(i) ==
    LET rateLimitStatus == checkRateLimit(QuotaIdentifier, TypeOf(QuotaIdentifier))
        passes == ~Refused(rateLimitStatus)
        f == [flights EXCEPT ![i] = "stream"]
    IN  /\ flights[i] = "idle"
        /\ quota.admitted < MaxAdmitted
        /\ flights' = IF passes THEN f ELSE flights
        /\ quota' = IF passes
                     THEN [quota EXCEPT !.admitted = @ + 1,
                                        !.peak = Max(@, InFlight(f))]
                     ELSE quota
        /\ call' = Call("checkRateLimit", NoSession, passes, FALSE)
        /\ UNCHANGED <<rateLimits, quotaFrame>>

\* Lines 710-729: the provider's stream is exhausted; the increment follows
\* `if (convex && fullResponse)`.
StreamCompletes(i, fullResponse) ==
    /\ flights[i] = "stream"
    /\ flights' = [flights EXCEPT ![i] = IF fullResponse # "" THEN "increment"
                                         ELSE "idle"]
    /\ quota' = IF fullResponse # "" THEN quota
                 ELSE [quota EXCEPT !.uncounted = @ + 1]
    /\ call' = Call("chunk", NoSession, TRUE, FALSE)
    /\ UNCHANGED <<rateLimits, quotaFrame>>

\* Line 710: the provider fails; the generator throws, nothing after the loop
\* runs.
StreamBreaks(i) ==
    /\ flights[i] = "stream"
    /\ flights' = [flights EXCEPT ![i] = "idle"]
    /\ quota' = [quota EXCEPT !.uncounted = @ + 1]
    /\ call' = Call("chunk", NoSession, FALSE, FALSE)
    /\ UNCHANGED <<rateLimits, quotaFrame>>

\* The client gives the stream up.  cancelled: the response stream ends the
\* generator at its pending yield, so that nothing after it runs; otherwise
\* the generator goes on reading the provider.
ClientAbandons(i, cancelled) ==
    /\ flights[i] = "stream"
    /\ flights' = IF cancelled THEN [flights EXCEPT ![i] = "idle"] ELSE flights
    /\ quota' = IF cancelled THEN [quota EXCEPT !.uncounted = @ + 1] ELSE quota
    /\ call' = Call("abandon", NoSession, ~cancelled, FALSE)
    /\ UNCHANGED <<rateLimits, quotaFrame>>

\* Lines 729-739: convex.mutation(api.rateLimit.incrementRateLimit, ...).
IncrementRuns(i) ==
    /\ flights[i] = "increment"
    /\ rateLimits' = incrementRateLimit(rateLimits, QuotaIdentifier,
                                        TypeOf(QuotaIdentifier))
    /\ flights' = [flights EXCEPT ![i] = "idle"]
    /\ call' = Call("incrementRateLimit", NoSession, TRUE, FALSE)
    /\ UNCHANGED <<quota, quotaFrame>>

(***************************************************************************)
(* Readers of the Local Store: one call of a list function with any        *)
(* arguments, and the calls of a "load older" loop that starts at cursor 0 *)
(* and passes on the nextCursor it got.                                    *)
(***************************************************************************)
\* Largest number of messages in the slot of a reader's store.
MaxStored == 3
\* Largest page size asked for.
MaxLimit == 3
\* Largest cursor asked for.
MaxCursor == 4

NoListing ==
    [op |-> "none", sessionId |-> NoSession, cursor |-> 0, limit |-> 0,
     result |-> [messages |-> <<>>, nextCursor |-> NullCursor, hasMore |-> FALSE]]

NoWalk ==
    [op |-> "none", sessionId |-> NoSession, limit |-> 0, first |-> <<>>,
     pages |-> <<>>, nextCursor |-> NullCursor, hasMore |-> FALSE]

ReaderIdle ==
    /\ listed = NoListing
    /\ walk = NoWalk

readerFrame == <<storeVars, pageVars, serverVars, limiterVars, clientVars,
                identityVars, quotaVars>>

\* getAnonMessages(sessionId)
ListMessages(sessionId) ==
    /\ listed' = [op |-> "getAnonMessages", sessionId |-> sessionId,
                  cursor |-> 0, limit |-> 0,
                  result |-> [messages |-> getAnonMessages(sessionId, FALSE),
                              nextCursor |-> NullCursor, hasMore |-> FALSE]]
    /\ UNCHANGED <<walk, readerFrame>>

\* getAnonMessagesPaginated(sessionId, cursor, limit)
ListMessagesPage(sessionId, cursor, limit) ==
    /\ listed' = [op |-> "getAnonMessagesPaginated", sessionId |-> sessionId,
                  cursor |-> cursor, limit |-> limit,
                  result |-> getAnonMessagesPaginated(sessionId, cursor, limit, FALSE)]
    /\ UNCHANGED <<walk, readerFrame>>

\* The first call of a loop: getAnonMessagesPaginated(sessionId, null, limit).
StartWalk(sessionId, limit) ==
    LET r == getAnonMessagesPaginated(sessionId, 0, limit, FALSE)
    IN  /\ walk' = [op |-> "getAnonMessagesPaginated",
                    sessionId |-> sessionId, limit |-> limit,
                    first |-> getAnonMessages(sessionId, FALSE),
                    pages |-> <<r.messages>>,
                    nextCursor |-> r.nextCursor, hasMore |-> r.hasMore]
        /\ UNCHANGED <<listed, readerFrame>>

\* The next call of the loop, made while the last one said hasMore.
LoadOlder ==
    LET r == getAnonMessagesPaginated(walk.sessionId, walk.nextCursor,
                                      walk.limit, FALSE)
    IN  /\ walk.op = "getAnonMessagesPaginated"
        /\ walk.hasMore
        /\ Len(walk.pages) <= MaxStored
        /\ walk' = [walk EXCEPT !.pages = Append(@, r.messages),
                                !.nextCursor = r.nextCursor,
                                !.hasMore = r.hasMore]
        /\ UNCHANGED <<listed, readerFrame>>

\* getAnonSessionsPaginated(cursor, limit)
ListSessionsPage(cursor, limit) ==
    /\ listed' = [op |-> "getAnonSessionsPaginated", sessionId |-> NoSession,
                  cursor |-> cursor, limit |-> limit,
                  result |-> getAnonSessionsPaginated(cursor, limit, FALSE)]
    /\ UNCHANGED <<walk, readerFrame>>

\* The first call of a "load more sessions" loop:
\* getAnonSessionsPaginated(null, limit).
StartSessionWalk(limit) ==
    LET r == getAnonSessionsPaginated(0, limit, FALSE)
    IN  /\ walk' = [op |-> "getAnonSessionsPaginated",
                    sessionId |-> NoSession, limit |-> limit,
                    first |-> getAnonSessions(FALSE),
                    pages |-> <<r.sessions>>,
                    nextCursor |-> r.nextCursor, hasMore |-> r.hasMore]
        /\ UNCHANGED <<listed, readerFrame>>

\* The next call of the loop, made while the last one said hasMore.
LoadMoreSessions ==
    LET r == getAnonSessionsPaginated(walk.nextCursor, walk.limit, FALSE)
    IN  /\ walk.op = "getAnonSessionsPaginated"
        /\ walk.hasMore
        /\ Len(walk.pages) <= MaxStored
        /\ walk' = [walk EXCEPT !.pages = Append(@, r.sessions),
                                !.nextCursor = r.nextCursor,
                                !.hasMore = r.hasMore]
        /\ UNCHANGED <<listed, readerFrame>>

(***************************************************************************)
(* Specification Spec: the two stores behind their client-facing entry     *)
(* points, called in any order by any caller with any arguments.           *)
(***************************************************************************)
\* The batches addMessages is called with.
Batches ==
    {<<[messageId |-> p[1], role |-> "user", content |-> Text],
       [messageId |-> p[2], role |-> "assistant", content |-> Text]>> :
        p \in {q \in MessageIds \X MessageIds : q[1] # q[2]}}

\* The stores right after deployment, and the page before its first render.
StoresEmpty ==
    /\ now = 1
    /\ chatSessions = <<>>
    /\ chatMessages = <<>>
    /\ anonSessions = <<>>
    /\ anonMessages = <<>>
    /\ call = NoCall

PageUnmounted ==
    /\ storedMessages = <<>>
    /\ messages = <<>>
    /\ isLoading = FALSE
    /\ currentUserMessageIdRef = Null
    /\ currentAssistantMessageIdRef = Null
    /\ view = NotRendered

Init ==
    /\ StoresEmpty
    /\ backend \in {"remote", "local"}
    /\ PageUnmounted
    /\ ServerIdle
    /\ LimiterIdle
    /\ ClientIdle
    /\ ReaderIdle
    /\ IdentityAbsent
    /\ QuotaIdle

RemoteNext ==
    \E auth \in Auth, sessionId \in SessionIds :
        \/ \E userId \in Principals : createSession(auth, sessionId, userId, Title)
        \/ \E title \in {NoTitle, Title} : updateSession(auth, sessionId, title)
        \/ deleteSession(auth, sessionId)
        \/ /\ Len(chatMessages) < MaxMessages
           /\ \E messageId \in MessageIds, role \in Roles :
                    addMessage(auth, sessionId, messageId, role, Text)
        \/ /\ Len(chatMessages) + 2 <= MaxMessages
           /\ \E batch \in Batches : addMessages(auth, sessionId, batch)

LocalNext ==
    \E sessionId \in SessionIds, readFails \in BOOLEAN, writeFails \in BOOLEAN :
        \/ \E messageId \in MessageIds, role \in Roles :
                saveAnonMessage(MessageRecord(sessionId, messageId, role, Text, now),
                                readFails, writeFails)
        \/ createAnonSession(sessionId, Title, readFails, writeFails)
        \/ \E msgFails \in BOOLEAN :
                deleteAnonSession(sessionId, readFails, writeFails, msgFails)

Next == (RemoteNext \/ LocalNext \/ Tick)
            /\ UNCHANGED <<pageVars, serverVars, limiterVars, clientVars, readerVars,
                         identityVars, quotaVars>>

Spec == Init /\ [][Next]_vars

(***************************************************************************)
(* Specification SpecMerge: the Merge View applied to every combination    *)
(* of persisted messages, useChat messages, loading flag and refs.         *)
(***************************************************************************)
SeqsUpTo(S, n) == UNION {[1..k -> S] : k \in 0..n}

\* What getMessages can return for the active session: records in ascending
\* createdAt order.
StoredLists ==
    {list \in SeqsUpTo({MessageRecord("s1", id, role, Text, t) :
                            id \in MessageIds, role \in Roles, t \in 1..MaxClock},
                       MaxMessages) :
        \A i \in 1..(Len(list) - 1) : list[i].createdAt <= list[i + 1].createdAt}

\* The parts of a useChat message.
PartLists ==
    {<<[type |-> "text", content |-> "he"], [type |-> "text", content |-> "llo"]>>,
     <<[type |-> "thinking", content |-> "hm"], [type |-> "text", content |-> "ok"]>>}

LiveLists ==
    {[i \in 1..Len(shape) |->
        [id |-> ChatId(i), role |-> shape[i][1], parts |-> shape[i][2]]] :
        shape \in SeqsUpTo(Roles \X PartLists, MaxLive)}

InitMerge ==
    /\ StoresEmpty
    /\ backend = "remote"
    /\ storedMessages \in StoredLists
    /\ messages \in LiveLists
    /\ isLoading \in BOOLEAN
    /\ currentUserMessageIdRef \in MessageIds \cup {Null}
    /\ currentAssistantMessageIdRef \in MessageIds \cup {Null}
    \* the two ids are different UUIDs
    /\ currentUserMessageIdRef = Null
            \/ currentUserMessageIdRef # currentAssistantMessageIdRef
    /\ view = NotRendered
    /\ ServerIdle
    /\ LimiterIdle
    /\ ClientIdle
    /\ ReaderIdle
    /\ IdentityAbsent
    /\ QuotaIdle

NextMerge ==
    Render /\ UNCHANGED <<storeVars, serverVars, limiterVars, clientVars, readerVars,
                         identityVars, quotaVars>>

SpecMerge == InitMerge /\ [][NextMerge]_vars

(***************************************************************************)
(* Specification SpecServer: the streaming endpoint in front of the Remote *)
(* Store and the limiter, receiving requests with any token and any body.  *)
(***************************************************************************)
\* The header combinations getClientIP tells apart.
Headers ==
    {[forwardedFor |-> "ip1", realIP |-> Null],
     [forwardedFor |-> Null, realIP |-> "ip1"],
     [forwardedFor |-> Null, realIP |-> Null]}

\* body.messages: nothing, a user message with a text part, a user message
\* with plain content, an assistant message.
BodyMessages ==
    {<<>>,
     <<[role |-> "user", parts |-> <<[type |-> "text", content |-> Text]>>,
        content |-> Null]>>,
     <<[role |-> "user", parts |-> <<>>, content |-> Text]>>,
     <<[role |-> "assistant", parts |-> <<>>, content |-> Text]>>}

\* What verifyToken makes of the Authorization header: a subject, or nothing.
Tokens == {NoUser, "u1"}

\* body.messageHistory
Histories == {<<[role |-> "assistant", content |-> Text]>>}

\* The sessionIds a client can send: none, one it made up, one it was told.
KnownSessionIds ==
    {NoSession, "s1"} \cup {chatSessions[i].sessionId : i \in 1..Len(chatSessions)}

Bodies ==
    [sessionId : KnownSessionIds,
     anonymousId : {NoUser} \cup AnonymousIds \cup {"u1"},
     userMessageId : {Null, "m1"},
     isAnonymous : BOOLEAN,
     messages : BodyMessages,
     messageHistory : Histories]

Chunks == {[type |-> "content", delta |-> Delta], [type |-> "done", delta |-> ""]}

\* A limiter record of an address that was served ANONYMOUS_USER_LIMIT - 1
\* times today.
AlmostSpent ==
    <<[identifier |-> "ip1", identifierType |-> "ip", date |-> 0,
       messageCount |-> ANONYMOUS_USER_LIMIT - 1, updatedAt |-> 1]>>

InitServer ==
    /\ StoresEmpty
    /\ backend = "remote"
    /\ PageUnmounted
    /\ convex \in BOOLEAN
    /\ rateLimits = AlmostSpent
    /\ req = IdleReq
    /\ served = 0
    /\ uuids = 0
    /\ LimiterIdle
    /\ ClientIdle
    /\ ReaderIdle
    /\ IdentityAbsent
    /\ QuotaIdle

ServerNext ==
    \/ \E apiKey \in BOOLEAN, token \in Tokens, headers \in Headers, body \in Bodies :
            ReceiveRequest(apiKey, token, headers, body)
    \/ \E fails \in BOOLEAN : CheckRateLimitStep(fails)
    \/ \E fails \in BOOLEAN : CreateSessionStep(fails)
    \/ \E fails \in BOOLEAN : AddUserMessageStep(fails)
    \/ \E chunk \in Chunks : ProviderChunk(chunk)
    \/ ProviderEnds
    \/ ProviderFails
    \/ \E fails \in BOOLEAN : AddAssistantStep(fails)
    \/ \E fails \in BOOLEAN : IncrementStep(fails)
    \/ Finish

NextServer == ServerNext /\ UNCHANGED <<pageVars, limiterVars, clientVars, readerVars,
                         identityVars, quotaVars>>

SpecServer == InitServer /\ [][NextServer]_vars

(***************************************************************************)
(* Specification SpecLimiter: the limiter called by any number of clients  *)
(* while the clock passes midnight.                                        *)
(***************************************************************************)
InitLimiter ==
    /\ StoresEmpty
    /\ backend = "remote"
    /\ PageUnmounted
    /\ ServerIdle
    /\ LimiterIdle
    /\ ClientIdle
    /\ ReaderIdle
    /\ IdentityAbsent
    /\ QuotaIdle

LimiterNext ==
    \E identifier \in LimiterIds :
        \/ \E identifierType \in IdentifierTypes :
                CheckRateLimitCall(identifier, identifierType)
        \/ SendIncrement(identifier)
        \/ RunIncrement(identifier)

NextLimiter ==
    \/ LimiterNext /\ UNCHANGED <<pageVars, clientVars, readerVars,
                         identityVars, quotaVars>>
    \/ Tick /\ checked' = NoCheck
            /\ UNCHANGED <<pageVars, serverVars, inflight, completed, clientVars,
                           readerVars, identityVars, quotaVars>>

SpecLimiter == InitLimiter /\ [][NextLimiter]_vars

(***************************************************************************)
(* Specification SpecClient: ChatPage under any sequence of user events    *)
(* and of chunks, repeated metadata chunks included.                       *)
(***************************************************************************)
\* The metadata chunks a stream delivers.
Metadata ==
    [sessionId : {Null, UUID(1)},
     userMessageId : {Null, "m1"},
     assistantMessageId : {Null, "m2"}]

InitClient ==
    /\ StoresEmpty
    /\ backend = "remote"
    /\ PageUnmounted
    /\ ServerIdle
    /\ LimiterIdle
    /\ ClientIdle
    /\ ReaderIdle
    /\ IdentityAbsent
    /\ QuotaIdle

ClientNext ==
    \/ \E value \in Inputs : TypeInput(value)
    \/ handleSubmit
    \/ \E metadata \in Metadata : onMetadata(metadata)
    \/ onContent
    \/ onFinish
    \/ \E status \in {"429", "500"} : StreamFails(status)
    \/ createNewSession
    \/ \E id \in SidebarIds : selectSession(id)
    \/ \E id \in SidebarIds, fails \in BOOLEAN : handleDeleteSession(id, fails)

NextClient == ClientNext /\ UNCHANGED <<serverVars, limiterVars, readerVars,
                         identityVars, quotaVars>>

SpecClient == InitClient /\ [][NextClient]_vars

(***************************************************************************)
(* Specification SpecTurn: the endpoint serving a verified principal who   *)
(* sends a text, while the clock runs and the principal deletes sessions   *)
(* from another tab.                                                       *)
(***************************************************************************)
\* body.messages of a submission: the text as a part, or as plain content.
TurnMessages ==
    {<<[role |-> "user", parts |-> <<[type |-> "text", content |-> Text]>>,
        content |-> Null]>>,
     <<[role |-> "user", parts |-> <<>>, content |-> Text]>>}

\* body.messageHistory: absent, or what the client says was said before.
TurnHistories == {<<>>, <<[role |-> "assistant", content |-> Text]>>}

TurnBodies ==
    [sessionId : KnownSessionIds,
     anonymousId : {NoUser},
     userMessageId : {Null, "m1"},
     isAnonymous : {FALSE},
     messages : TurnMessages,
     messageHistory : TurnHistories]

InitTurn ==
    /\ StoresEmpty
    /\ backend = "remote"
    /\ PageUnmounted
    /\ ServerIdle
    /\ LimiterIdle
    /\ ClientIdle
    /\ ReaderIdle
    /\ IdentityAbsent
    /\ QuotaIdle

TurnNext ==
    \/ /\ \/ \E body \in TurnBodies :
                ReceiveRequest(TRUE, "u1",
                               [forwardedFor |-> "ip1", realIP |-> Null], body)
          \/ \E fails \in BOOLEAN : CheckRateLimitStep(fails)
          \/ \E fails \in BOOLEAN : CreateSessionStep(fails)
          \/ \E fails \in BOOLEAN : AddUserMessageStep(fails)
          \/ \E chunk \in Chunks : ProviderChunk(chunk)
          \/ ProviderEnds
          \/ ProviderFails
          \/ \E fails \in BOOLEAN : AddAssistantStep(fails)
          \/ \E fails \in BOOLEAN : IncrementStep(fails)
          \/ Finish
    \/ /\ \/ Tick
          \/ \E sessionId \in KnownSessionIds \ {NoSession} :
                deleteSession("u1", sessionId)
       /\ UNCHANGED serverVars

NextTurn == TurnNext /\ UNCHANGED <<pageVars, limiterVars, clientVars, readerVars,
                         identityVars, quotaVars>>

SpecTurn == InitTurn /\ [][NextTurn]_vars

(***************************************************************************)
(* Specification SpecPages: the list functions of the Local Store applied  *)
(* to every content of the messages slot: messages of two sessions, in any *)
(* insertion order, with any createdAt.                                    *)
(***************************************************************************)
\* The id of the i-th message pushed.
StoredId(i) == "m" \o ToString(i)

StoredSlots ==
    UNION {{[i \in 1..k |-> MessageRecord(sess[i], StoredId(i), "user", Text, t[i])] :
                sess \in [1..k -> SessionIds], t \in [1..k -> 1..MaxClock]} :
           k \in 0..MaxStored}

InitPages ==
    /\ now = MaxClock
    /\ chatSessions = <<>>
    /\ chatMessages = <<>>
    /\ anonSessions = <<>>
    /\ anonMessages \in StoredSlots
    /\ call = NoCall
    /\ backend = "local"
    /\ PageUnmounted
    /\ ServerIdle
    /\ LimiterIdle
    /\ ClientIdle
    /\ ReaderIdle
    /\ IdentityAbsent
    /\ QuotaIdle

NextPages ==
    \/ \E sessionId \in SessionIds : ListMessages(sessionId)
    \/ \E sessionId \in SessionIds, cursor \in 0..MaxCursor, limit \in 1..MaxLimit :
            ListMessagesPage(sessionId, cursor, limit)
    \/ \E sessionId \in SessionIds, limit \in 1..MaxLimit : StartWalk(sessionId, limit)
    \/ LoadOlder

SpecPages == InitPages /\ [][NextPages]_vars

(***************************************************************************)
(* Specification SpecSessionPages: getAnonSessionsPaginated applied to     *)
(* every content of the sessions slot that createAnonSession can have      *)
(* built: each record was put at the head when it was created.             *)
(***************************************************************************)
\* The id of the i-th session created.
StoredSessionId(i) == "s" \o ToString(i)

\* Lists of k sessions, the latest created at the head.
StoredSessionSlots ==
    UNION {{[i \in 1..k |-> AnonSessionRecord(StoredSessionId(k + 1 - i), Title, t[i])] :
                t \in {u \in [1..k -> 1..MaxClock] :
                            \A i \in 1..(k - 1) : u[i] >= u[i + 1]}} :
           k \in 0..MaxStored}

InitSessionPages ==
    /\ now = MaxClock
    /\ chatSessions = <<>>
    /\ chatMessages = <<>>
    /\ anonSessions \in StoredSessionSlots
    /\ anonMessages = <<>>
    /\ call = NoCall
    /\ backend = "local"
    /\ PageUnmounted
    /\ ServerIdle
    /\ LimiterIdle
    /\ ClientIdle
    /\ ReaderIdle
    /\ IdentityAbsent
    /\ QuotaIdle

NextSessionPages ==
    \/ \E cursor \in 0..MaxCursor, limit \in 1..MaxLimit : ListSessionsPage(cursor, limit)
    \/ \E limit \in 1..MaxLimit : StartSessionWalk(limit)
    \/ LoadMoreSessions

SpecSessionPages == InitSessionPages /\ [][NextSessionPages]_vars

(***************************************************************************)
(* Specification SpecLocal: the Local Store alone, with its identity slot; *)
(* every access to the storage may fail.                                   *)
(***************************************************************************)
InitLocal ==
    /\ StoresEmpty
    /\ backend = "local"
    /\ PageUnmounted
    /\ ServerIdle
    /\ LimiterIdle
    /\ ClientIdle
    /\ ReaderIdle
    /\ IdentityAbsent
    /\ QuotaIdle

NextLocal ==
    \/ (LocalNext \/ Tick)
            /\ UNCHANGED <<identityVars, quotaVars, pageVars, serverVars, limiterVars,
                           clientVars,
                           readerVars>>
    \/ (\E uuid \in BrowserUUIDs, readFails \in BOOLEAN, writeFails \in BOOLEAN :
            getAnonymousUserId(uuid, readFails, writeFails))
            /\ UNCHANGED <<pageVars, serverVars, limiterVars, clientVars, readerVars,
                           quotaVars>>

SpecLocal == InitLocal /\ [][NextLocal]_vars

(***************************************************************************)
(* Specification SpecGrow: a "load older" loop over a session that gets    *)
(* new messages between the calls.                                         *)
(***************************************************************************)
\* saveAnonMessage called between two calls of a loop: the message of a
\* turn that ended meanwhile, stamped with the current time.
AppendBetweenPages(sessionId, role) ==
    /\ Len(anonMessages) <= MaxStored
    /\ anonMessages' =
            AfterSaveAnonMessage(anonMessages,
                                 MessageRecord(sessionId, StoredId(Len(anonMessages) + 1),
                                               role, Text, now),
                                 FALSE)
    /\ call' = Call("saveAnonMessage", sessionId, TRUE, FALSE)
    /\ UNCHANGED <<now, chatSessions, chatMessages, anonSessions, backend, pageVars,
                   serverVars, limiterVars, clientVars, readerVars, identityVars,
                   quotaVars>>

NextGrow ==
    \/ \E sessionId \in SessionIds, limit \in 1..MaxLimit : StartWalk(sessionId, limit)
    \/ LoadOlder
    \/ \E sessionId \in SessionIds, role \in Roles : AppendBetweenPages(sessionId, role)

SpecGrow == InitPages /\ [][NextGrow]_vars

(***************************************************************************)
(* Specification SpecAppend: messages added to the Remote Store by         *)
(* addMessage, internalAddMessage and addMessages in any order, to         *)
(* sessions that exist and to sessions that do not, while the clock runs.  *)
(***************************************************************************)
\* Largest number of message records of the table.
MaxOrdered == 3

\* The batch addMessages is called with when the table holds n records.
NextBatch(n) ==
    <<[messageId |-> StoredId(n + 1), role |-> "user", content |-> Text],
      [messageId |-> StoredId(n + 2), role |-> "assistant", content |-> Text]>>

InitAppend ==
    /\ StoresEmpty
    /\ backend = "remote"
    /\ PageUnmounted
    /\ ServerIdle
    /\ LimiterIdle
    /\ ClientIdle
    /\ ReaderIdle
    /\ IdentityAbsent
    /\ QuotaIdle

AppendNext ==
    \/ \E sessionId \in SessionIds : createSession("u1", sessionId, "u1", Title)
    \/ /\ Len(chatMessages) < MaxOrdered
       /\ \E sessionId \in SessionIds, role \in Roles :
            \/ addMessage("u1", sessionId, StoredId(Len(chatMessages) + 1), role, Text)
            \/ internalAddMessage(sessionId, StoredId(Len(chatMessages) + 1), role, Text)
    \/ /\ Len(chatMessages) + 2 <= MaxOrdered
       /\ \E sessionId \in SessionIds :
            addMessages("u1", sessionId, NextBatch(Len(chatMessages)))
    \/ Tick

NextAppend == AppendNext /\ UNCHANGED <<pageVars, serverVars, limiterVars, clientVars,
                                        readerVars, identityVars, quotaVars>>

SpecAppend == InitAppend /\ [][NextAppend]_vars

(***************************************************************************)
(* Specification SpecQuota: up to MaxFlights requests of one address at a  *)
(* time, within one UTC day, in every interleaving of their steps.         *)
(***************************************************************************)
InitQuota ==
    /\ StoresEmpty
    /\ backend = "remote"
    /\ PageUnmounted
    /\ ServerIdle
    /\ LimiterIdle
    /\ ClientIdle
    /\ ReaderIdle
    /\ IdentityAbsent
    /\ QuotaIdle

NextQuota ==
    \E i \in Flights :
        \/ AdmitRequest(i)
        \/ \E fullResponse \in {"", Delta} : StreamCompletes(i, fullResponse)
        \/ StreamBreaks(i)
        \/ \E cancelled \in BOOLEAN : ClientAbandons(i, cancelled)
        \/ IncrementRuns(i)

SpecQuota == InitQuota /\ [][NextQuota]_vars

(***************************************************************************)
(* Specification SpecAnon: anonymous turns against the Local Store, with   *)
(* storage accesses that may fail and a clock that runs.                   *)
(***************************************************************************)
InitAnon ==
    /\ StoresEmpty
    /\ backend = "local"
    /\ PageUnmounted
    /\ ServerIdle
    /\ LimiterIdle
    /\ ClientIdle
    /\ ReaderIdle
    /\ IdentityAbsent
    /\ QuotaIdle

AnonNext ==
    \/ \E text \in SubmittedTexts : Sending(text)
    \/ \E readFails \in BOOLEAN, writeFails \in BOOLEAN :
            ReceiveMetadata(readFails, writeFails)
    \/ ReceiveContent
    \/ \E userFails \in BOOLEAN, assistantFails \in BOOLEAN :
            Finalizing(userFails, assistantFails)
    \/ Errored
    \/ NewChat
    \/ Tick /\ UNCHANGED <<pageVars, clientVars>>

NextAnon == AnonNext /\ UNCHANGED <<serverVars, limiterVars, readerVars,
                         identityVars, quotaVars>>

SpecAnon == InitAnon /\ [][NextAnon]_vars

(***************************************************************************)
(* Properties of the Merge View.                                           *)
(***************************************************************************)
LineIdOf(line) == line.id

\* A live turn is active.
LiveTurn == isLoading /\ Len(messages) > 0

\* The persisted data already holds the message the ref names.
Persisted(ref) ==
    ref # Null /\ \E m \in Range(storedMessages) : m.messageId = ref

\* The live lines the view has to add to the persisted messages.
UserLineDue == LiveTurn /\ ~Persisted(currentUserMessageIdRef)
                        /\ FindRole(messages, "user") # 0
AssistantLineDue == LiveTurn /\ ~Persisted(currentAssistantMessageIdRef)
                             /\ FindRole(messages, "assistant") # 0

\* C1: when the persisted messageIds are distinct, no two entries of the
\* Merge View output have the same id, whether the turn's ids are known,
\* unknown, persisted or not.
C1_NoDuplicateIds ==
    (view.rendered /\ DistinctBy(storedMessages, MessageIdOf))
        => DistinctBy(view.lines, LineIdOf)

\* The store has caught up with the user message while the assistant message
\* is still streaming: the view shows the persisted user message and the live
\* assistant line, and no second user line.
C1_Witness ==
    /\ view.rendered
    /\ LiveTurn
    /\ DistinctBy(storedMessages, MessageIdOf)
    /\ Persisted(currentUserMessageIdRef)
    /\ FindRole(messages, "user") # 0
    /\ AssistantLineDue
    /\ Len(view.lines) = Len(storedMessages) + 1

\* C2: with a live turn, the output is the persisted messages in their
\* oldest-first order, none flagged as streaming, followed by the live user
\* line (when due) at max(persisted createdAt) + 1, followed by the live
\* assistant line (when due) at a strictly later timestamp than every line
\* before it, flagged isStreaming.
C2_LiveLinesAfterPersisted ==
    (view.rendered /\ LiveTurn) =>
        LET n == Len(storedMessages)
            u == IF UserLineDue THEN 1 ELSE 0
            a == IF AssistantLineDue THEN 1 ELSE 0
            lines == view.lines
        IN  /\ Len(lines) = n + u + a
            /\ \A i \in 1..n :
                /\ lines[i].id = storedMessages[i].messageId
                /\ lines[i].createdAt = storedMessages[i].createdAt
                /\ ~lines[i].isStreaming
            /\ u = 1 =>
                /\ lines[n + 1].role = "user"
                /\ lines[n + 1].createdAt = MaxCreatedAt(0, storedMessages) + 1
                /\ ~lines[n + 1].isStreaming
            /\ a = 1 =>
                /\ lines[n + u + 1].role = "assistant"
                /\ lines[n + u + 1].isStreaming
                /\ \A i \in 1..(n + u) :
                        lines[i].createdAt < lines[n + u + 1].createdAt

\* Both live lines are shown after two persisted messages.
C2_Witness ==
    /\ view.rendered
    /\ LiveTurn
    /\ Len(storedMessages) = 2
    /\ UserLineDue
    /\ AssistantLineDue
    /\ Len(view.lines) = 4
    /\ view.lines[4].isStreaming

C25_IdleViewIsPersisted ==
    (view.rendered /\ ~LiveTurn) =>
        view.lines = [i \in 1..Len(storedMessages) |->
                        [id |-> storedMessages[i].messageId,
                         role |-> storedMessages[i].role,
                         content |-> storedMessages[i].content,
                         createdAt |-> storedMessages[i].createdAt,
                         isStreaming |-> FALSE]]

\* The page is not loading but useChat still holds messages: they are not shown.
C25_Witness ==
    /\ view.rendered
    /\ ~isLoading
    /\ Len(messages) = 2
    /\ Len(storedMessages) = 2
    /\ storedMessages[1].createdAt = storedMessages[2].createdAt
    /\ Len(view.lines) = 2


(***************************************************************************)
(* Properties of the two stores.                                           *)
(***************************************************************************)
HasSession(sessions, sessionId) == \E r \in Range(sessions) : r.sessionId = sessionId
HasMessageOf(msgs, sessionId) == \E r \in Range(msgs) : r.sessionId = sessionId

\* C4: persistence is idempotent on messageId: in neither store do two stored
\* message records share a messageId, whatever appends were made or replayed.
C4_UniqueMessageIds ==
    /\ DistinctBy(chatMessages, MessageIdOf)
    /\ DistinctBy(anonMessages, MessageIdOf)

\* C5: in neither store do two session records share a sessionId, whatever
\* createSession calls were made or repeated.
C5_OneSessionPerSessionId ==
    /\ DistinctBy(chatSessions, SessionIdOf)
    /\ DistinctBy(anonSessions, SessionIdOf)

\* C6: in every reachable state of either store, every stored message belongs
\* to an existing session record (messages never outlive their session).
C6_NoOrphanMessages ==
    /\ \A m \in Range(chatMessages) : HasSession(chatSessions, m.sessionId)
    /\ \A m \in Range(anonMessages) : HasSession(anonSessions, m.sessionId)

\* C7: after deleteSession(s) succeeded (it returned without throwing and no
\* storage access failed), no session record and no message record of s is
\* left: listMessages(s) is an empty terminal page for every caller and every
\* page size, and listSessions does not contain s.
C7_DeleteRemovesSessionAndMessages ==
    /\ (call.op = "deleteSession" /\ call.ok) =>
            /\ ~HasSession(chatSessions, call.sessionId)
            /\ ~HasMessageOf(chatMessages, call.sessionId)
            /\ \A auth \in Auth, n \in 1..MaxMessages :
                    /\ getMessagesPaginated(auth, call.sessionId, 0, n).page = <<>>
                    /\ getMessagesPaginated(auth, call.sessionId, 0, n).isDone
            /\ \A auth \in Principals :
                    ~HasSession(listSessions(auth, auth), call.sessionId)
    /\ (call.op = "deleteAnonSession" /\ call.ok /\ ~call.fault) =>
            /\ ~HasSession(anonSessions, call.sessionId)
            /\ ~HasMessageOf(anonMessages, call.sessionId)
            /\ \A n \in 1..MaxMessages :
                    /\ getAnonMessagesPaginated(call.sessionId, 0, n, FALSE).messages = <<>>
                    /\ ~getAnonMessagesPaginated(call.sessionId, 0, n, FALSE).hasMore
            /\ ~HasSession(getAnonSessions(FALSE), call.sessionId)

\* The caller owns no session record with this sessionId.
NotOwner(auth, sessionId) ==
    ~\E r \in Range(chatSessions) : r.sessionId = sessionId /\ r.userId = auth

OwnSessions(auth, list) ==
    /\ \A r \in Range(list) : r.userId = auth
    /\ auth = NoUser => list = <<>>

OwnMessages(auth, sessionId, list) ==
    /\ \A m \in Range(list) :
            /\ m.sessionId = sessionId
            /\ \E r \in Range(chatSessions) : r.sessionId = m.sessionId /\ r.userId = auth
    /\ (auth = NoUser \/ NotOwner(auth, sessionId)) => list = <<>>

\* C8: every client-facing query of the Remote Store returns only records of
\* sessions owned by the caller's verified principal, and returns the empty
\* result (null, [], or an empty page with isDone) when there is no verified
\* principal or the requested userId or session is another principal's.
C8_QueriesReturnOwnRecordsOnly ==
    \A auth \in Auth :
        /\ \A userId \in Principals :
            /\ OwnSessions(auth, listSessions(auth, userId))
            /\ auth # userId => listSessions(auth, userId) = <<>>
            /\ \A cursor \in 0..MaxSessions, n \in 1..MaxSessions :
                LET r == listSessionsPaginated(auth, userId, cursor, n)
                IN  /\ OwnSessions(auth, r.page)
                    /\ auth # userId => r.page = <<>> /\ r.isDone
        /\ \A sessionId \in SessionIds :
            /\ OwnSessions(auth, getSession(auth, sessionId))
            /\ NotOwner(auth, sessionId) => getSession(auth, sessionId) = <<>>
            /\ OwnMessages(auth, sessionId, getMessages(auth, sessionId))
            /\ \A cursor \in 0..MaxMessages, n \in 1..MaxMessages :
                LET r == getMessagesPaginated(auth, sessionId, cursor, n)
                IN  /\ OwnMessages(auth, sessionId, r.page)
                    /\ (auth = NoUser \/ NotOwner(auth, sessionId)) => r.isDone

\* Two principals each own a session with a message; each reads their own
\* and gets nothing of the other's.
C8_Witness ==
    /\ Len(getMessages("u1", "s1")) > 0
    /\ Len(getMessages("u2", "s2")) > 0
    /\ getMessages("u1", "s2") = <<>>
    /\ getSession("u2", "s1") = <<>>
    /\ Len(listSessions("u1", "u1")) = 1

\* The caller may change this session: there is a verified principal and, if
\* the session exists, its owner is that principal.
MayMutate(auth, sessionId) ==
    /\ auth # NoUser
    /\ LET i == FirstSessionIdx(chatSessions, sessionId)
       IN  i # 0 => chatSessions[i].userId = auth

\* C9: a client-facing mutation of the Remote Store called without a verified
\* principal, or on a session whose owner is another principal, fails with an
\* error and leaves every session and message record unchanged.
C9_MutationsRequireOwner ==
    [][\A auth \in Auth, sessionId \in SessionIds :
        (/\ ~MayMutate(auth, sessionId)
         /\ \/ \E userId \in Principals : createSession(auth, sessionId, userId, Title)
            \/ \E title \in {NoTitle, Title} : updateSession(auth, sessionId, title)
            \/ deleteSession(auth, sessionId)
            \/ \E messageId \in MessageIds, role \in Roles :
                    addMessage(auth, sessionId, messageId, role, Text)
            \/ \E batch \in Batches : addMessages(auth, sessionId, batch))
        => (~call'.ok /\ UNCHANGED <<chatSessions, chatMessages>>)]_vars

(***************************************************************************)
(* Properties of the streaming endpoint, checked under SpecServer.         *)
(***************************************************************************)
\* The turn of the request ended in a failure: a 500 answer before streaming,
\* or a stream that broke.
TurnFailed == req.pc = "done" /\ req.status \in {"500", "error"}

\* The Remote Store holds the answer of the request's turn.
AssistantStored ==
    \E i \in 1..Len(chatMessages) :
        chatMessages[i].messageId = req.assistantMessageId

\* The Remote Store holds the session the request's turn created.
TurnSessionStored ==
    req.isNewSession /\ HasSession(chatSessions, req.currentSessionId)

C10_EndpointWritesAsVerifiedOwner ==
    [][(chatSessions' # chatSessions \/ chatMessages' # chatMessages) =>
        /\ req.userId # NoUser
        /\ Len(chatSessions') > Len(chatSessions) =>
                chatSessions'[Len(chatSessions')].userId = req.userId
        /\ Len(chatMessages') > Len(chatMessages) =>
                LET i == FirstSessionIdx(chatSessions,
                            chatMessages'[Len(chatMessages')].sessionId)
                IN  i # 0 /\ chatSessions[i].userId = req.userId]_vars

(***************************************************************************)
(* Properties of the limiter, checked under SpecLimiter.                   *)
(***************************************************************************)
\* The records of a key of the limiter.
RecordsOf(identifier, date) ==
    {i \in 1..Len(rateLimits) :
        rateLimits[i].identifier = identifier /\ rateLimits[i].date = date}

\* The messageCount stored for a key, 0 without a record.
StoredCount(identifier, date) ==
    IF RecordsOf(identifier, date) = {} THEN 0
    ELSE rateLimits[CHOOSE i \in RecordsOf(identifier, date) : TRUE].messageCount

\* C11: a check of an identity that received exactly `limit` increments today
\* (10 for type user, 5 for type ip) returns allowed = false; a check on a
\* later UTC day on which the identity received no increment returns
\* allowed = true, whatever the counts of the days before.
C11_SpentTodayFreshTomorrow ==
    checked # NoCheck =>
        LET done == completed[checked.identifier]
            limit == IF checked.identifierType = "user" THEN 10 ELSE 5
        IN  /\ done[checked.date] = limit => ~checked.result.allowed
            /\ (checked.date > 0 /\ done[checked.date] = 0) => checked.result.allowed

\* A user spent the quota of day 0 and is let in on day 1.
C11_Witness ==
    /\ checked # NoCheck
    /\ checked.identifierType = "user"
    /\ checked.date = 1
    /\ completed[checked.identifier][0] = 10
    /\ checked.result.allowed

\* C12: whatever the interleaving of the incrementRateLimit calls, a key that
\* received n > 0 increments has exactly one record and its messageCount is
\* n, a key that received none has no record; no step lowers the
\* messageCount of a record.
C12_NoLostIncrement ==
    /\ [](\A identifier \in LimiterIds, date \in Days :
            /\ Cardinality(RecordsOf(identifier, date))
                    = IF completed[identifier][date] = 0 THEN 0 ELSE 1
            /\ StoredCount(identifier, date) = completed[identifier][date])
    /\ [][\A i \in 1..Len(rateLimits) :
            /\ i <= Len(rateLimits')
            /\ rateLimits'[i].identifier = rateLimits[i].identifier
            /\ rateLimits'[i].date = rateLimits[i].date
            /\ rateLimits'[i].messageCount >= rateLimits[i].messageCount]_vars

\* All the calls of two identities have completed, two of them for one key.
C12_Witness ==
    /\ \A identifier \in LimiterIds : inflight[identifier] = 0
    /\ completed["u1"][0] = 2
    /\ completed["ip1"][0] = 1
    /\ Len(rateLimits) = 2
    /\ StoredCount("u1", 0) = 2

\* C13: checkRateLimit returns limit 10 for type user and 5 for type ip,
\* allowed exactly when today's stored messageCount (0 without a record) is
\* below the limit, remaining = max(0, limit - messageCount); the call
\* changes no record of the limiter.
C13_CheckReadsTodaysCount ==
    /\ [](checked # NoCheck =>
            LET limit == IF checked.identifierType = "user" THEN 10 ELSE 5
                count == StoredCount(checked.identifier, checked.date)
            IN  /\ checked.result.limit = limit
                /\ checked.result.allowed = (count < limit)
                /\ checked.result.remaining
                        = (IF limit - count > 0 THEN limit - count ELSE 0))
    /\ [][checked' # NoCheck => rateLimits' = rateLimits]_vars

\* A check of an address that is over its limit.
C13_Witness ==
    /\ checked # NoCheck
    /\ checked.identifierType = "ip"
    /\ StoredCount(checked.identifier, checked.date) = 6
    /\ ~checked.result.allowed
    /\ checked.result.remaining = 0

(***************************************************************************)
(* Properties of the endpoint's use of the limiter, under SpecServer.      *)
(***************************************************************************)
\* The daily quota of an identifier type.
QuotaOf(identifierType) == IF identifierType = "user" THEN 10 ELSE 5

\* The last step was a check that answered, for an identity at its limit.
CheckSaidNo ==
    /\ call.op = "checkRateLimit"
    /\ call.ok
    /\ StoredCount(req.rateLimitIdentifier, UtcDay) >= QuotaOf(req.identifierType)

\* C14: when the check answers for an identity at its limit, the endpoint
\* answers 429 with the limiter's limit and resetAt, without having called
\* the provider or written a session or a message; the refusing step and the
\* end of the refused request change no session, message or limiter record.
C14_RefusedBeforeAnyWork ==
    /\ [](CheckSaidNo =>
            /\ req.pc = "done"
            /\ req.status = "429"
            /\ req.answer.limit = QuotaOf(req.identifierType)
            /\ req.answer.resetAt = UtcDay
            /\ req.emitted = <<>>
            /\ req.written = <<>>)
    /\ [][(req.status = "429" \/ req'.status = "429") =>
            UNCHANGED <<chatSessions, chatMessages, rateLimits>>]_vars

\* An address that used its five messages is refused.
C14_Witness ==
    /\ CheckSaidNo
    /\ req.status = "429"
    /\ req.identifierType = "ip"
    /\ req.answer.limit = 5
    /\ StoredCount(req.rateLimitIdentifier, UtcDay) = 5

\* C15: a check that throws lets the request go on as an allowed one does,
\* whatever the counter says; an increment, throwing or not, ends the stream
\* normally and leaves the chunks sent and the sessions and messages stored
\* as they are, and a throwing one leaves the limiter's records as they are.
C15_LimiterFailsOpen ==
    /\ []((call.op = "checkRateLimit" /\ ~call.ok) =>
            /\ req.pc \in {"createSession", "addUserMessage", "stream"}
            /\ req.status = "")
    /\ [][(req.pc = "check" /\ ~call'.ok) =>
            /\ req' = GenerateIds(req)
            /\ uuids' = uuids + UuidsUsed(req)]_vars
    /\ [][req.pc = "increment" =>
            /\ req'.pc = "done"
            /\ req'.status = "ok"
            /\ req'.emitted = req.emitted
            /\ req'.written = req.written
            /\ UNCHANGED <<chatSessions, chatMessages>>
            /\ ~call'.ok => UNCHANGED rateLimits]_vars

\* The check threw for an address that had used its quota, and the request is
\* streaming.
C15_Witness ==
    /\ call.op = "checkRateLimit"
    /\ ~call.ok
    /\ StoredCount(req.rateLimitIdentifier, UtcDay) >= QuotaOf(req.identifierType)
    /\ req.pc = "stream"

\* C17: a stream that started has exactly one metadata chunk, its first one;
\* the chunk carries the user and assistant message ids of the turn, and the
\* sessionId of the turn exactly when the request came without a sessionId;
\* a stream that ended normally did start.
C17_MetadataFirstAndOnce ==
    /\ req.status = "ok" => req.emitted # <<>>
    /\ req.emitted # <<>> =>
        /\ req.emitted[1].type = "metadata"
        /\ \A i \in 2..Len(req.emitted) : req.emitted[i].type # "metadata"
        /\ req.emitted[1].userMessageId = req.currentUserMessageId
        /\ req.emitted[1].userMessageId # Null
        /\ req.emitted[1].assistantMessageId = req.assistantMessageId
        /\ req.emitted[1].assistantMessageId # Null
        /\ req.emitted[1].sessionId
                = IF req.sessionId = NoSession THEN req.currentSessionId ELSE Null
        /\ req.sessionId = NoSession => req.currentSessionId # NoSession

\* A new conversation's stream ended normally after a content chunk.
C17_Witness ==
    /\ req.pc = "done"
    /\ req.status = "ok"
    /\ req.sessionId = NoSession
    /\ Len(req.emitted) = 2
    /\ req.emitted[1].sessionId = req.currentSessionId
    /\ req.emitted[2].type = "content"

(***************************************************************************)
(* Properties of ChatPage, specification SpecClient.                       *)
(***************************************************************************)
\* C16: a client never has two streams in flight: a submission is accepted
\* only when no stream is loading, and a submission made while a stream is in
\* flight is rejected, allocates no user message id and opens no connection.
C16_OneStreamAtATime ==
    /\ [](streams <= 1 /\ (streams = 1 <=> isLoading))
    /\ [][(call'.op = "handleSubmit" /\ call' # call) =>
            IF streams > 0 \/ isLoading
            THEN /\ ~call'.ok
                 /\ UNCHANGED <<allocated, connections, streams,
                                currentUserMessageIdRef, messages>>
            ELSE call'.ok => (streams' = 1 /\ connections' = connections + 1)]_vars

C16_Witness ==
    /\ call.op = "handleSubmit"
    /\ ~call.ok
    /\ streams = 1
    /\ isLoading
    /\ connections = 1

\* C18: adoption of a new conversation's sessionId is idempotent: whatever the
\* chunks and the user's navigation, the page navigates to an adopted session
\* at most once.
C18_AdoptedAndNavigatedOnce == \A id \in SidebarIds : adoptions[id] <= 1

\* C19: once a stream has completed, the streamed messages and both per-turn
\* ids are cleared and stay so while the page is idle after that turn.
C19_FinishClearsTurnState ==
    turn = "finished" =>
        /\ messages = <<>>
        /\ currentUserMessageIdRef = Null
        /\ currentAssistantMessageIdRef = Null
        /\ ~isLoading

C19_Witness ==
    /\ turn = "finished"
    /\ call.op = "onFinish"
    /\ delivered > 0
    /\ sessionIdRef = UUID(1)
    /\ allocated = 1

\* C20: after a turn that failed for another reason than the quota, both
\* per-turn ids are unset until the next submission.
C20_FailureDiscardsIds ==
    turn = "errored" =>
        /\ currentUserMessageIdRef = Null
        /\ currentAssistantMessageIdRef = Null

(***************************************************************************)
(* Properties of a verified principal's turn, specification SpecTurn.      *)
(***************************************************************************)
\* The positions of the turn's user message and of its assistant message in
\* the Remote Store.
UserPositions ==
    {i \in 1..Len(chatMessages) :
        /\ chatMessages[i].messageId = req.currentUserMessageId
        /\ chatMessages[i].sessionId = req.currentSessionId
        /\ chatMessages[i].role = "user"}

AssistantPositions ==
    {i \in 1..Len(chatMessages) :
        /\ chatMessages[i].messageId = req.assistantMessageId
        /\ chatMessages[i].sessionId = req.currentSessionId
        /\ chatMessages[i].role = "assistant"}

\* C21: in a verified principal's turn the user message is committed before
\* anything is streamed, the assistant message only after the provider's last
\* chunk, and whenever the turn's assistant message is stored its user
\* message is stored too, with createdAt not later than the assistant's.
C21_UserCommittedBeforeAssistant ==
    (req.pc # "idle" /\ persists(req)) =>
        /\ req.emitted # <<>> => "user" \in Range(req.written)
        /\ AssistantPositions # {} => req.pc \in {"increment", "done"}
        /\ \A a \in AssistantPositions :
                \E u \in UserPositions :
                    chatMessages[u].createdAt <= chatMessages[a].createdAt

\* The context the turn would have if it were read from the Remote Store: the
\* session's stored messages without the turn's own, then the user's text.
StoredContext ==
    ContextOf(SelectSeq(internalGetMessages(req.currentSessionId),
                        LAMBDA m : m.messageId # req.currentUserMessageId),
              req.userMessageContent)

\* C22: for a request of a verified principal the context sent to the provider
\* is the stored history of the session followed by the current user message,
\* whatever messageHistory the client sent.
C22_ContextFromStoredHistory ==
    (req.userId # NoUser /\ req.pc = "stream" /\ Len(req.emitted) = 1) =>
        req.context = StoredContext

(***************************************************************************)
(* Properties of the Local Store's list functions, specification SpecPages.*)
(***************************************************************************)
\* The pages of a loop put together, the oldest page first.
RECURSIVE OldestFirst(_)
OldestFirst(pages) ==
    IF pages = <<>> THEN <<>>
    ELSE OldestFirst(Tail(pages)) \o Head(pages)

Chronological(list) ==
    \A i \in 1..(Len(list) - 1) : list[i].createdAt <= list[i + 1].createdAt

\* The messages of a session as the slot holds them.
StoredOf(sessionId) == {m \in Range(anonMessages) : m.sessionId = sessionId}

\* The number of pages a session of n messages has at page size l.
PagesOf(n, l) == IF n = 0 THEN 1 ELSE (n + l - 1) \div l

\* C26: the calls that start at cursor 0 and follow nextCursor return, taken
\* together, every message of the session once, without gap, each page in
\* chronological order, and end with hasMore = false after ceil(N/L) pages
\* (one page for an empty session).
C26_WalkReturnsEveryMessageOnce ==
    walk.sessionId # NoSession =>
        LET all == getAnonMessages(walk.sessionId, FALSE)
            N == Len(all)
            k == Len(walk.pages)
            got == OldestFirst(walk.pages)
        IN  /\ \A i \in 1..k : Chronological(walk.pages[i])
            /\ Len(got) <= N
            /\ got = SubSeq(all, N - Len(got) + 1, N)
            /\ \A i \in 1..k : i < PagesOf(N, walk.limit) => Len(walk.pages[i]) = walk.limit
            /\ walk.hasMore => k < PagesOf(N, walk.limit)
            /\ ~walk.hasMore => /\ got = all
                                /\ k = PagesOf(N, walk.limit)
                                /\ walk.nextCursor = NullCursor

\* Three messages read in pages of two: a page of two, then a page of one.
C26_Witness ==
    /\ walk.sessionId # NoSession
    /\ walk.limit = 2
    /\ ~walk.hasMore
    /\ Len(walk.pages) = 2
    /\ Len(walk.pages[1]) = 2
    /\ Len(walk.pages[2]) = 1
    /\ Cardinality(StoredOf(walk.sessionId)) = 3

\* C27: for every total, cursor c (also beyond total) and limit, the page is
\* the window [max(0, total-c-limit), total-c) of the session's sorted list,
\* empty when total-c <= 0; hasMore says whether the window starts after
\* position 0, and nextCursor is c+limit when hasMore and none otherwise.
C27_PageIsWindow ==
    listed.op = "getAnonMessagesPaginated" =>
        LET all == getAnonMessages(listed.sessionId, FALSE)
            total == Len(all)
            lo == Max(0, total - listed.cursor - listed.limit)
            hi == total - listed.cursor
        IN  /\ listed.result.messages = IF hi <= 0 THEN <<>> ELSE SubSeq(all, lo + 1, hi)
            /\ listed.result.hasMore = (lo > 0)
            /\ listed.result.nextCursor = IF lo > 0 THEN listed.cursor + listed.limit
                                          ELSE NullCursor

\* C28: whatever the insertion order and the mix of sessions in the slot,
\* getAnonMessages(sessionId) returns the stored messages of that session, all
\* of them and no other, in non-decreasing createdAt order.
C28_ListIsSessionSorted ==
    listed.op = "getAnonMessages" =>
        /\ Range(listed.result.messages) = StoredOf(listed.sessionId)
        /\ Len(listed.result.messages) = Cardinality(StoredOf(listed.sessionId))
        /\ Chronological(listed.result.messages)

\* The slot holds a later message of the session before an earlier one, and a
\* message of the other session between them.
C28_Witness ==
    /\ listed.op = "getAnonMessages"
    /\ Len(anonMessages) = 3
    /\ anonMessages[1].sessionId = listed.sessionId
    /\ anonMessages[2].sessionId # listed.sessionId
    /\ anonMessages[3].sessionId = listed.sessionId
    /\ anonMessages[1].createdAt > anonMessages[3].createdAt
    /\ Len(listed.result.messages) = 2

(***************************************************************************)
(* Properties of the sessions' updatedAt, specification Spec.              *)
(***************************************************************************)
\* Every record of the session is at least as recent after the step as
\* before it, and at least as recent as t.
BumpedTo(before, after, sessionId, t) ==
    /\ Len(after) = Len(before)
    /\ \A i \in 1..Len(before) :
            before[i].sessionId = sessionId =>
                /\ after[i].sessionId = sessionId
                /\ after[i].updatedAt >= before[i].updatedAt
                /\ after[i].updatedAt >= t

\* No record that stays in its place gets an earlier updatedAt.
NeverEarlier(before, after) ==
    Len(after) = Len(before) =>
        \A i \in 1..Len(before) :
            after[i].sessionId = before[i].sessionId =>
                after[i].updatedAt >= before[i].updatedAt

\* C29: in both stores a successful append of a message to an existing
\* session bumps the session's updatedAt: it is then not smaller than before
\* and not smaller than the createdAt of the appended message; and no
\* operation decreases a session's updatedAt.
C29_AppendBumpsUpdatedAt ==
    [][/\ (call'.op = "addMessage" /\ call'.ok
                /\ HasSession(chatSessions, call'.sessionId)) =>
            LET i == FirstSessionIdx(chatSessions, call'.sessionId)
            IN  /\ chatSessions'[i].updatedAt >= chatSessions[i].updatedAt
                /\ chatSessions'[i].updatedAt >=
                        chatMessages'[Len(chatMessages')].createdAt
       /\ (call'.op = "saveAnonMessage" /\ ~call'.fault
                /\ HasSession(anonSessions, call'.sessionId)) =>
            BumpedTo(anonSessions, anonSessions', call'.sessionId,
                     anonMessages'[Len(anonMessages')].createdAt)
       /\ NeverEarlier(chatSessions, chatSessions')
       /\ NeverEarlier(anonSessions, anonSessions')]_vars

\* listSessions of the Local Store: the first page of a size that takes all.
AllAnonSessions ==
    getAnonSessionsPaginated(0, Len(anonSessions) + 1, FALSE).sessions

\* C30: after any sequence of createAnonSession, saveAnonMessage and
\* deleteAnonSession the Local Store returns its sessions in non-increasing
\* updatedAt order, with no sort at read time: the pages are the stored list
\* as it is, and a session that was just created is at its head.
C30_SessionsNewestFirst ==
    /\ [](/\ AllAnonSessions = anonSessions
          /\ \A i \in 1..(Len(AllAnonSessions) - 1) :
                AllAnonSessions[i].updatedAt >= AllAnonSessions[i + 1].updatedAt
          /\ \A limit \in 1..MaxSessions :
                getAnonSessionsPaginated(0, limit, FALSE).sessions
                    = SubSeq(anonSessions, 1,
                             IF limit < Len(anonSessions) THEN limit
                             ELSE Len(anonSessions)))
    /\ [][(call'.op = "createAnonSession" /\ call'.ok /\ anonSessions' # anonSessions) =>
            /\ anonSessions' # <<>>
            /\ anonSessions'[1].sessionId = call'.sessionId
            /\ anonSessions'[1].updatedAt = now]_vars

\* A second session was created after the clock moved on: it is at the head.
C30_Witness ==
    /\ call.op = "createAnonSession"
    /\ call.ok
    /\ Len(anonSessions) = 2
    /\ anonSessions[1].sessionId = call.sessionId
    /\ anonSessions[1].updatedAt > anonSessions[2].updatedAt

(***************************************************************************)
(* Properties of an anonymous turn, specification SpecAnon.                *)
(***************************************************************************)
\* The two records of the turn that is being finalized.
TurnUserRecord ==
    [sessionId |-> sessionIdRef, messageId |-> ClientUUID(allocated),
     role |-> "user", content |-> SubmittedText, createdAt |-> now]

TurnAssistantRecord ==
    [sessionId |-> sessionIdRef, messageId |-> ServerAssistantId(allocated),
     role |-> "assistant", content |-> Buffer, createdAt |-> now + 1]

\* The session record of the conversation that is being adopted.
AdoptedSessionRecord ==
    [sessionId |-> ServerSessionId(allocated),
     title |-> AnonTitle(SubmittedText), createdAt |-> now, updatedAt |-> now]

RECURSIVE FirstFirst(_)
FirstFirst(pages) ==
    IF pages = <<>> THEN <<>>
    ELSE Head(pages) \o FirstFirst(Tail(pages))

\* C31: with S stored sessions, getAnonSessionsPaginated(cursor, limit)
\* returns the sessions at positions [cursor, cursor+limit) of the stored
\* list (none when cursor >= S), hasMore is true exactly when
\* cursor+limit < S, nextCursor is cursor+limit when hasMore and none
\* otherwise; the calls that start at cursor 0 and follow nextCursor return
\* a prefix of the list, and the whole list once hasMore is false.
C31_SessionPageIsForwardWindow ==
    LET S == Len(anonSessions)
    IN  /\ listed.op = "getAnonSessionsPaginated" =>
            LET lo == listed.cursor
                hi == IF listed.cursor + listed.limit < S
                      THEN listed.cursor + listed.limit ELSE S
            IN  /\ listed.result.sessions =
                        IF lo >= S THEN <<>> ELSE SubSeq(anonSessions, lo + 1, hi)
                /\ listed.result.hasMore = (listed.cursor + listed.limit < S)
                /\ listed.result.nextCursor =
                        IF listed.cursor + listed.limit < S
                        THEN listed.cursor + listed.limit ELSE NullCursor
        /\ walk.op = "getAnonSessionsPaginated" =>
            LET got == FirstFirst(walk.pages)
            IN  /\ Len(got) <= S
                /\ got = SubSeq(anonSessions, 1, Len(got))
                /\ walk.hasMore => /\ Len(got) = Len(walk.pages) * walk.limit
                                   /\ walk.nextCursor = Len(got)
                /\ ~walk.hasMore => /\ got = anonSessions
                                    /\ walk.nextCursor = NullCursor
                                    /\ \A i, j \in 1..Len(got) :
                                            got[i].sessionId = got[j].sessionId => i = j

\* Three sessions read in pages of two (a page of two, then a page of one),
\* and the page of one session asked for at cursor 1.
C31_Witness ==
    /\ Len(anonSessions) = 3
    /\ walk.op = "getAnonSessionsPaginated"
    /\ walk.limit = 2
    /\ ~walk.hasMore
    /\ Len(walk.pages) = 2
    /\ Len(walk.pages[2]) = 1
    /\ listed.op = "getAnonSessionsPaginated"
    /\ listed.cursor = 1
    /\ listed.limit = 1
    /\ listed.result.hasMore
    /\ listed.result.sessions = <<anonSessions[2]>>

(***************************************************************************)
(* Properties of the Local Store under storage failures, specification     *)
(* SpecLocal.                                                              *)
(***************************************************************************)
LocalOperations ==
    {"saveAnonMessage", "createAnonSession", "deleteAnonSession", "getAnonymousUserId"}

EmptySessionsPage == [sessions |-> <<>>, nextCursor |-> NullCursor, hasMore |-> FALSE]
EmptyMessagesPage == [messages |-> <<>>, nextCursor |-> NullCursor, hasMore |-> FALSE]

\* Every list function gives its empty result when the read fails.
FailingReadsGiveEmpty ==
    /\ getAnonSessions(TRUE) = <<>>
    /\ \A cursor \in 0..MaxCursor, limit \in 1..MaxLimit :
            getAnonSessionsPaginated(cursor, limit, TRUE) = EmptySessionsPage
    /\ \A sessionId \in SessionIds :
            /\ getAnonMessages(sessionId, TRUE) = <<>>
            /\ \A cursor \in 0..MaxCursor, limit \in 1..MaxLimit :
                    getAnonMessagesPaginated(sessionId, cursor, limit, TRUE)
                        = EmptyMessagesPage

\* C32: no operation of the Local Store throws when a storage access fails:
\* a failing read gives the empty result, and an operation during which an
\* access failed returns normally and leaves the sessions slot and the
\* messages slot as they were.
C32_StorageFailuresAbsorbed ==
    /\ []FailingReadsGiveEmpty
    /\ [][(call'.op \in LocalOperations /\ call'.fault) =>
                /\ call'.ok
                /\ UNCHANGED <<anonSessions, anonMessages, anonUserId>>]_vars

\* C33: the identity slot is written at most once.  A call of
\* getAnonymousUserId that returns gives the value the slot holds after it, a
\* token with the prefix anon_; once the slot holds a value no operation of
\* the Local Store replaces or removes it, so every later call that returns,
\* after any other operations, gives that same value and writes nothing.
C33_IdentityGeneratedOnce ==
    /\ [](identified # Null => identified = anonUserId)
    /\ [](anonUserId # Null => SubSeq(anonUserId, 1, 5) = "anon_")
    /\ [][/\ anonUserId # Null => anonUserId' = anonUserId
          /\ (call'.op = "getAnonymousUserId" /\ call'.ok) =>
                   /\ identified' # Null
                   /\ identified' = anonUserId'
          /\ call'.op # "getAnonymousUserId" => UNCHANGED identityVars]_vars

\* The identity was returned by a call made when sessions and messages had
\* been created and deleted around it.
C33_Witness ==
    /\ call.op = "getAnonymousUserId"
    /\ call.ok
    /\ identified = anonUserId
    /\ anonUserId \in {"anon_r1", "anon_r2"}
    /\ Len(anonSessions) = 2
    /\ Len(anonMessages) = 2
    /\ now = MaxClock

(***************************************************************************)
(* Properties of a loop over a growing session, specification SpecGrow.    *)
(***************************************************************************)
\* No message is in the pages twice.
WalkHasNoDuplicate ==
    LET got == OldestFirst(walk.pages)
    IN  \A i, j \in 1..Len(got) : got[i].messageId = got[j].messageId => i = j

\* A loop that has ended has returned every message of its first call's time.
WalkHasNoGap ==
    ~walk.hasMore => Range(walk.first) \subseteq Range(OldestFirst(walk.pages))

\* C38: when messages are appended to the session between the calls of a
\* loop, the pages got by following nextCursor hold no message twice and,
\* once the loop has ended, every message the session had at the first call.
C38_PagesOfGrowingSession ==
    walk.op = "getAnonMessagesPaginated" =>
        /\ WalkHasNoDuplicate
        /\ WalkHasNoGap

(***************************************************************************)
(* Properties of the Remote Store's appends, specification SpecAppend.     *)
(***************************************************************************)
AddOperations == {"addMessage", "internalAddMessage", "addMessages"}

\* The records the step has put into chatMessages.
Added == SubSeq(chatMessages', Len(chatMessages) + 1, Len(chatMessages'))

\* C35: getMessages returns the messages of a session in the order in which
\* they were inserted, and the messages of one addMessages call have strictly
\* increasing createdAt in argument order.
C35_MessagesInInsertionOrder ==
    /\ [](\A sessionId \in SessionIds :
            HasSession(chatSessions, sessionId) =>
                getMessages("u1", sessionId) =
                    SelectSeq(chatMessages, LAMBDA m : m.sessionId = sessionId))
    /\ [][call'.op = "addMessages" =>
            /\ Len(Added) = 2
            /\ Added[1].role = "user"
            /\ Added[1].createdAt < Added[2].createdAt]_vars

\* C36: addMessage, internalAddMessage and addMessages called with a
\* sessionId that has no session record return normally, insert their
\* message(s) at the end of the table and leave chatSessions as it is; called
\* with any sessionId they leave every record of another session as it is.
C36_AppendWithoutSession ==
    [][call'.op \in AddOperations =>
        /\ call'.ok
        /\ Len(Added) >= 1
        /\ SubSeq(chatMessages', 1, Len(chatMessages)) = chatMessages
        /\ \A i \in 1..Len(Added) : Added[i].sessionId = call'.sessionId
        /\ Len(chatSessions') = Len(chatSessions)
        /\ \A i \in 1..Len(chatSessions) :
                chatSessions[i].sessionId # call'.sessionId =>
                    chatSessions'[i] = chatSessions[i]
        /\ ~HasSession(chatSessions, call'.sessionId) =>
                chatSessions' = chatSessions]_vars

\* A message was added to a session that has no record while another session
\* has one, created earlier.
C36_Witness ==
    /\ call.op \in AddOperations
    /\ ~HasSession(chatSessions, call.sessionId)
    /\ Len(chatSessions) = 1
    /\ chatSessions[1].updatedAt < now
    /\ Len(chatMessages) = 3
    /\ chatMessages[3].sessionId = call.sessionId
    /\ chatMessages[3].createdAt = now

(***************************************************************************)
(* The frame of a delete, specification Spec.                              *)
(***************************************************************************)
\* The records of the sessions other than sessionId, in their order.
OtherThan(list, sessionId) == SelectSeq(list, LAMBDA r : r.sessionId # sessionId)

RemoteDeleteFrame ==
    call'.op = "deleteSession" =>
        /\ OtherThan(chatSessions', call'.sessionId) = OtherThan(chatSessions, call'.sessionId)
        /\ OtherThan(chatMessages', call'.sessionId) = OtherThan(chatMessages, call'.sessionId)
        /\ UNCHANGED <<anonSessions, anonMessages, anonUserId>>

LocalDeleteFrame ==
    call'.op = "deleteAnonSession" =>
        /\ OtherThan(anonSessions', call'.sessionId) = OtherThan(anonSessions, call'.sessionId)
        /\ OtherThan(anonMessages', call'.sessionId) = OtherThan(anonMessages, call'.sessionId)
        /\ UNCHANGED <<chatSessions, chatMessages, anonUserId>>

\* C37: a delete of session s, in either store, leaves every session record
\* and every message of another session as it was and in the same order, and
\* leaves the other store and the identity slot alone.
C37_DeleteChangesOnlyItsSession ==
    [][RemoteDeleteFrame /\ LocalDeleteFrame]_vars

(***************************************************************************)
(* Properties of the quota under concurrent requests, specification        *)
(* SpecQuota.                                                              *)
(***************************************************************************)
\* C34: with at most K requests of the identity in flight at any time, no
\* more than limit + K - 1 requests of one day reach the provider (limit
\* when they are strictly sequential), whatever the interleaving of checks,
\* stream ends, abandoned streams and increments.
C34_AdmittedWithinSoftLimit ==
    quota.admitted <= ANONYMOUS_USER_LIMIT + Max(quota.peak, 1) - 1

\* The requests that were counted or are still being handled stay within
\* the soft limit.
CountedWithinSoftLimit ==
    quota.admitted - quota.uncounted <= ANONYMOUS_USER_LIMIT + Max(quota.peak, 1) - 1

(***************************************************************************)
(* Properties of the live turn in the view, specification SpecClient.      *)
(***************************************************************************)
\* The Merge View of the page's current state.
CurrentLines ==
    allMessages(storedMessages, messages, isLoading, currentUserMessageIdRef,
                currentAssistantMessageIdRef)

\* The lines of the view that come from useChat and not from the store.
LiveLines ==
    SelectSeq(CurrentLines,
              LAMBDA line : \A i \in 1..Len(storedMessages) :
                                storedMessages[i].messageId # line.id)

\* While a stream is in flight and the user has left the view the turn was
\* submitted in, the view shows no line of that turn.
LeftViewShowsNoLiveLine ==
    (isLoading /\ origin.left) => LiveLines = <<>>

\* While a stream is in flight and the user has left the view the turn was
\* submitted in, a chunk of that stream changes neither the route nor the
\* session the page submits to.
LeftViewKeepsItsSession ==
    [][(isLoading /\ origin.left /\ call'.op = "onChunk")
            => (route' = route /\ sessionIdRef' = sessionIdRef)]_vars

\* C39: while a stream is in flight, after the user selected another session
\* or started a new chat, no line of the turn in flight is shown in the view
\* the user went to, and no metadata of that turn changes the session of
\* that view.
C39_NavigationIsolatesTurnInFlight ==
    []LeftViewShowsNoLiveLine /\ LeftViewKeepsItsSession

\* The position of the last submission in the useChat messages, 0 when there
\* is none.
LastSubmission ==
    IF \E i \in 1..Len(messages) : messages[i].role = "user"
    THEN CHOOSE i \in 1..Len(messages) :
            /\ messages[i].role = "user"
            /\ \A j \in (i + 1)..Len(messages) : messages[j].role # "user"
    ELSE 0

\* The content streamed for the last submission: the text of the assistant
\* messages that follow it.
RECURSIVE StreamedSince(_)
StreamedSince(i) ==
    IF i > Len(messages) THEN ""
    ELSE (IF messages[i].role = "assistant" THEN getMessageContent(messages[i]) ELSE "")
            \o StreamedSince(i + 1)

\* The live user line shows the text of the last submission.
LiveUserLineIsLastSubmission ==
    \A i \in 1..Len(LiveLines) :
        LiveLines[i].role = "user" =>
            /\ LastSubmission # 0
            /\ LiveLines[i].content = getMessageContent(messages[LastSubmission])

\* The live assistant line shows what was streamed for the last submission.
LiveAssistantLineIsItsStream ==
    \A i \in 1..Len(LiveLines) :
        LiveLines[i].role = "assistant" =>
            /\ LastSubmission # 0
            /\ StreamedSince(LastSubmission + 1) # ""
            /\ LiveLines[i].content = StreamedSince(LastSubmission + 1)

\* C40: whenever a live turn is displayed in the view it was submitted in,
\* its user line shows the text of the most recent submission and its
\* assistant line the content streamed for that submission.
C40_LiveLinesAreOfLastSubmission ==
    (isLoading /\ ~origin.left) =>
        /\ LiveUserLineIsLastSubmission
        /\ LiveAssistantLineIsItsStream
====
